---------------------------- MODULE Spec2Model ----------------------------
(***************************************************************************)
(* A model of the detection-and-correlation pipeline:                      *)
(*   - NetworkCapture: the windowed port-scan / SYN-flood tracker, and    *)
(*     the capture threads of start and stop                               *)
(*     (log_ingestors/network_capture.py)                                  *)
(*   - CorrelationAgent.correlate (agents/correlation/agent.py)            *)
(*   - LLMReasoningAgent.reason and its fallback table                     *)
(*     (agents/llm_reasoner/agent.py), as called by handle_live_log and    *)
(*     _process_all (api/main.py)                                          *)
(*   - the producer threads, the main event loop and the broadcasts to     *)
(*     the dashboards (api/main.py, api/websocket_manager.py)              *)
(* Each part has its own specification; the variables of the other parts   *)
(* are held fixed by it.                                                   *)
(***************************************************************************)
EXTENDS Integers, Sequences, FiniteSets, TLC

VARIABLES
    \* ---- NetworkCapture ----
    now,           \* datetime.now(), in seconds
    connections,   \* self.connections: conn_key -> [count, ports, last_seen]
    syn_packets,   \* self.syn_packets: syn_key -> [count, last_seen]
    reported,      \* the threat_data handed to _report_threat by the last packet
    step,          \* history: the layer and TCP flags of the last packet
    conn_from,     \* history: per conn_key, when the oldest port still in
                   \*          its port set was first recorded
    syn_from,      \* history: per syn_key, the time of the oldest SYN still
                   \*          in its count
    alert_span     \* history: for each element of reported, the seconds from
                   \*          the oldest observation counted in it to the report

VARIABLES
    \* ---- NetworkCapture.start and stop ----
    running,         \* self.running
    capture_thread,  \* self.thread: 0 for None, else the thread's number
    started,         \* the threads start() has created so far
    alive,           \* the threads whose sniff() has not returned
    inside,          \* per thread inside _process_packet: the packet, and
                     \* the tables as the thread found them on entry
    joining          \* the caller of stop() is in self.thread.join(timeout=5)

VARIABLES
    \* ---- CorrelationAgent ----
    findings,      \* the list of ThreatFinding passed to correlate
    correlated,    \* the list correlate returned
    cpc,           \* "call" before correlate has run, "returned" after
    retained,      \* the attributes the CorrelationAgent instance holds
    calls          \* history: input, input after the call and output of
                   \*          every call of correlate on the instance

threadVars == <<running, capture_thread, started, alive, inside, joining>>
captureVars == <<now, connections, syn_packets, reported, step,
                 conn_from, syn_from, alert_span, threadVars>>
recallVars == <<retained, calls>>
correlateVars == <<findings, correlated, cpc, recallVars>>

VARIABLES
    \* ---- LLMReasoningAgent ----
    has_api_key,   \* self.has_api_key
    rpc,           \* reason(): "call", "awaiting" the oracle, "returned"
    response,      \* history: what the oracle answered to this call
    decisions,     \* the value reason() returned
    oracle_calls   \* calls of self.model.generate_content so far

reasonVars == <<has_api_key, rpc, response, decisions, oracle_calls>>

VARIABLES
    \* ---- the pipeline: handle_live_log and _process_all ----
    path,          \* "live" (handle_live_log) or "request" (_process_all)
    ppc,           \* "submitted", "classifying", "start", "reasoning",
                   \* "done", "failed_analyze", "failed_reason"
    waited,        \* seconds the caller has waited for the pending result
    sink,          \* the payloads state.update was called with
    stats,         \* log_source_stats[source]: events and threats
    broadcasts     \* the messages handed to ws_manager, in order

pipelineVars == <<path, ppc, waited, sink, stats, broadcasts>>

VARIABLES
    \* ---- producer threads, HTTP requests and the main event loop ----
    thread,        \* per producer thread: where it is in handle_live_log,
                   \* the number of its event, what analyze found
    request,       \* the HTTP request: "none", "queued", "processing", "done"
    ready,         \* the event loop's queue of tasks ready to run
    awaiting,      \* the tasks suspended on the oracle
    sending,       \* per client, the tasks suspended on a send to it
    futures,       \* the tasks of producer threads that have a result
    clients,       \* ws_manager.active_connections
    inbox,         \* per client, the messages sent to it, in order
    updates,       \* the events state.update was called for, in order
    source_stats,  \* log_source_stats
    pending        \* the events the producers have still to deliver

loopVars == <<thread, request, ready, awaiting, sending, futures, clients,
              inbox, updates, source_stats, pending>>

VARIABLES
    \* ---- LogAnalysisAgent ----
    logs,          \* the text passed to analyze
    analysis,      \* the list of findings analyze returned
    analyzed       \* analyze has returned

VARIABLES
    \* ---- WebServerLogParser ----
    access_log,    \* the lines of the watched file not yet read
    delivered,     \* the records the callback was called with, in order
    processed,     \* history: the lines process_log_line was called with
    threat_input,  \* the list of threats normalize_log is called with
    normalized     \* the record that call returned, if it has

analyzerVars == <<logs, analysis, analyzed>>
parserVars == <<access_log, delivered, processed, threat_input, normalized>>
ingestVars == <<analyzerVars, parserVars>>

VARIABLES
    \* ---- DashboardState and the API endpoints ----
    results,       \* state.results: the collections the dashboard shows
    history,       \* state.history: the dictionaries update was called with
    update_no,     \* the calls of update so far (the clock of the series)
    first_update,  \* history: the calls of update before the run
    summary,       \* the counts GET /dashboard/summary answered last, if any
    upload         \* the last upload: the file, the agents called, the answer

VARIABLES
    \* ---- the live sources (api/main.py lines 76-87) ----
    log_sources_enabled,  \* source -> the enabled flag the API reports
    log_ingestors,        \* source -> the ingestor: created, its running flag
    toggle_response,      \* the answer of the last toggle
    log_files_exist       \* an access log exists at one of the default paths

dashVars == <<results, history, update_no, first_update, summary, upload>>
toggleVars == <<log_sources_enabled, log_ingestors, toggle_response,
                log_files_exist>>
apiVars == <<dashVars, toggleVars>>

vars == <<captureVars, correlateVars, reasonVars, pipelineVars, loopVars,
          ingestVars, apiVars>>

-----------------------------------------------------------------------------
(***************************************************************************)
(* NetworkCapture                                                          *)
(***************************************************************************)

PORT_SCAN_THRESHOLD == 10
SYN_FLOOD_THRESHOLD == 50
PORT_WINDOW == 60
SYN_WINDOW == 10

\* tcp_layer.flags bits
SYN == 2
ACK == 16

\* Bounds of the model
NumPorts == 12        \* destination ports 1..NumPorts
MaxCount == 21        \* packets counted in one connection entry (scan runs)
MaxFloodCount == 51   \* packets counted in one connection entry (flood runs)
ScanMaxTime == 150    \* the clock stops here (scan runs)
FloodMaxTime == 15    \* the clock stops here (flood runs)

Ports == 1..NumPorts

\* f with key k bound to v (dict item assignment, creating the key if absent)
Put(f, k, v) == [x \in (DOMAIN f) \cup {k} |-> IF x = k THEN v ELSE f[x]]

\* f without the keys in ks (del self.connections[k])
Drop(f, ks) == [x \in (DOMAIN f) \ ks |-> f[x]]

Empty == [x \in {} |-> 0]

\* defaultdict factories of __init__
ConnEntry(conns, k, t) ==
    IF k \in DOMAIN conns THEN conns[k]
    ELSE [count |-> 0, ports |-> {}, last_seen |-> t]

SynEntry(syns, k, t) ==
    IF k \in DOMAIN syns THEN syns[k]
    ELSE [count |-> 0, last_seen |-> t]

\* flags & 0x02
HasSyn(flags) == (flags \div 2) % 2 = 1

\* What one run of _process_packet works on: the two tables, the reports made
\* so far, and whether the callback has raised (the rest of the handler is
\* then skipped and the exception caught at the end of _process_packet).
Tracker(conns, syns, cfrom, sfrom, reps, afrom, raised) ==
    [connections |-> conns, syn_packets |-> syns, conn_from |-> cfrom,
     syn_from |-> sfrom, reported |-> reps, alert_span |-> afrom,
     raised |-> raised]

\* Lines 124-127 (and 166-169): count, port set and last_seen of the pair
TrackConnection(T, p, t) ==
    LET k  == <<p.src, p.dst>>
        e0 == ConnEntry(T.connections, k, t)
        e1 == [count |-> e0.count + 1,
               ports |-> e0.ports \cup {p.dport},
               last_seen |-> t]
    IN [T EXCEPT !.connections = Put(T.connections, k, e1),
                 !.conn_from = IF e0.ports = {} THEN Put(T.conn_from, k, t)
                               ELSE T.conn_from]

\* Mutant: the threshold test written with > instead of >=
PortScanDetectedStrict(e) == Cardinality(e.ports) > PORT_SCAN_THRESHOLD

\* len(self.connections[conn_key]["ports"]) >= self.PORT_SCAN_THRESHOLD
PortScanDetected(e) == Cardinality(e.ports) >= PORT_SCAN_THRESHOLD

\* Mutant: the reset deletes the pair's entry instead of clearing its port set
DetectPortScanWholeEntry(T, p, fails) ==
    LET k == <<p.src, p.dst>>
        e == T.connections[k]
        r == [type |-> "PORT_SCAN", severity |-> "HIGH",
              source_ip |-> p.src, target_ip |-> p.dst,
              n |-> Cardinality(e.ports)]
        told == [T EXCEPT !.reported = Append(T.reported, r),
                          !.alert_span = Append(T.alert_span,
                                                e.last_seen - T.conn_from[k])]
    IN IF ~PortScanDetected(e) THEN T
       ELSE IF "PORT_SCAN" \in fails THEN [told EXCEPT !.raised = TRUE]
       ELSE [told EXCEPT !.connections = Drop(T.connections, {k}),
                         !.conn_from = Drop(T.conn_from, {k})]

\* Mutant: the reset clears the pair's packet count with its port set
DetectPortScanResetCount(T, p, fails) ==
    LET k == <<p.src, p.dst>>
        e == T.connections[k]
        r == [type |-> "PORT_SCAN", severity |-> "HIGH",
              source_ip |-> p.src, target_ip |-> p.dst,
              n |-> Cardinality(e.ports)]
        told == [T EXCEPT !.reported = Append(T.reported, r),
                          !.alert_span = Append(T.alert_span,
                                                e.last_seen - T.conn_from[k])]
    IN IF ~PortScanDetected(e) THEN T
       ELSE IF "PORT_SCAN" \in fails THEN [told EXCEPT !.raised = TRUE]
       ELSE [told EXCEPT !.connections =
                             Put(T.connections, k,
                                 [e EXCEPT !.ports = {}, !.count = 0]),
                         !.conn_from = Drop(T.conn_from, {k})]

\* Lines 130-140: the port-scan report and the reset of the port set
DetectPortScan(T, p, fails) ==
    LET k == <<p.src, p.dst>>
        e == T.connections[k]
        r == [type |-> "PORT_SCAN", severity |-> "HIGH",
              source_ip |-> p.src, target_ip |-> p.dst,
              n |-> Cardinality(e.ports)]
        told == [T EXCEPT !.reported = Append(T.reported, r),
                          !.alert_span = Append(T.alert_span,
                                                e.last_seen - T.conn_from[k])]
    IN IF ~PortScanDetected(e) THEN T
       ELSE IF "PORT_SCAN" \in fails THEN [told EXCEPT !.raised = TRUE]
       ELSE [told EXCEPT !.connections = Put(T.connections, k,
                                             [e EXCEPT !.ports = {}]),
                         !.conn_from = Drop(T.conn_from, {k})]

\* Lines 144-146: the SYN counter of the triple
TrackSyn(T, p, t) ==
    LET k  == <<p.src, p.dst, p.dport>>
        s0 == SynEntry(T.syn_packets, k, t)
        s1 == [count |-> s0.count + 1, last_seen |-> t]
    IN [T EXCEPT !.syn_packets = Put(T.syn_packets, k, s1),
                 !.syn_from = IF s0.count = 0 THEN Put(T.syn_from, k, t)
                              ELSE T.syn_from]

\* Mutant: the threshold test written with > instead of >=
SynFloodDetectedStrict(s) == s.count > SYN_FLOOD_THRESHOLD

\* self.syn_packets[syn_key]["count"] >= self.SYN_FLOOD_THRESHOLD
SynFloodDetected(s) == s.count >= SYN_FLOOD_THRESHOLD

\* Lines 148-159: the flood report and the reset of the counter
DetectSynFlood(T, p, fails) ==
    LET k == <<p.src, p.dst, p.dport>>
        s == T.syn_packets[k]
        r == [type |-> "SYN_FLOOD", severity |-> "CRITICAL",
              source_ip |-> p.src, target_ip |-> p.dst,
              n |-> s.count]
        told == [T EXCEPT !.reported = Append(T.reported, r),
                          !.alert_span = Append(T.alert_span,
                                                s.last_seen - T.syn_from[k])]
    IN IF ~SynFloodDetected(s) THEN T
       ELSE IF "SYN_FLOOD" \in fails THEN [told EXCEPT !.raised = TRUE]
       ELSE [told EXCEPT !.syn_packets = Put(T.syn_packets, k,
                                             [s EXCEPT !.count = 0]),
                         !.syn_from = Drop(T.syn_from, {k})]

\* _process_tcp
ProcessTcp(T, p, t, fails) ==
    LET T1 == DetectPortScan(TrackConnection(T, p, t), p, fails)
    IN IF T1.raised \/ ~HasSyn(p.flags) THEN T1
       ELSE DetectSynFlood(TrackSyn(T1, p, t), p, fails)

\* _process_udp
ProcessUdp(T, p, t) == TrackConnection(T, p, t)

\* v["last_seen"] < cutoff
Expired(e, t, window) == e.last_seen < t - window

\* Mutant: both tables are purged with the 60 s cutoff
CleanupOneWindow(T, t) ==
    LET oldc == {k \in DOMAIN T.connections :
                    Expired(T.connections[k], t, PORT_WINDOW)}
        olds == {k \in DOMAIN T.syn_packets :
                    Expired(T.syn_packets[k], t, PORT_WINDOW)}
    IN [T EXCEPT !.connections = Drop(T.connections, oldc),
                 !.conn_from = Drop(T.conn_from, oldc),
                 !.syn_packets = Drop(T.syn_packets, olds),
                 !.syn_from = Drop(T.syn_from, olds)]

\* _cleanup_old_entries
CleanupOldEntries(T, t) ==
    LET oldc == {k \in DOMAIN T.connections :
                    Expired(T.connections[k], t, PORT_WINDOW)}
        olds == {k \in DOMAIN T.syn_packets :
                    Expired(T.syn_packets[k], t, SYN_WINDOW)}
    IN [T EXCEPT !.connections = Drop(T.connections, oldc),
                 !.conn_from = Drop(T.conn_from, oldc),
                 !.syn_packets = Drop(T.syn_packets, olds),
                 !.syn_from = Drop(T.syn_from, olds)]

\* _process_packet: the layer dispatch, then the cleanup unless an exception
\* (a raising callback) left the try block early
ProcessPacket(T, p, t, fails) ==
    IF p.layer = "NONIP" THEN T
    ELSE LET T1 == CASE p.layer = "TCP" -> ProcessTcp(T, p, t, fails)
                     [] p.layer = "UDP" -> ProcessUdp(T, p, t)
                     [] OTHER -> T
         IN IF T1.raised THEN T1 ELSE CleanupOldEntries(T1, t)

\* sniff() delivers packet p to prn=self._process_packet; fails names the
\* report types on which the callback raises
Capture(p, fails) ==
    LET T == ProcessPacket(Tracker(connections, syn_packets, conn_from,
                                   syn_from, <<>>, <<>>, FALSE),
                           p, now, fails)
    IN /\ connections' = T.connections
       /\ syn_packets' = T.syn_packets
       /\ conn_from' = T.conn_from
       /\ syn_from' = T.syn_from
       /\ reported' = T.reported
       /\ alert_span' = T.alert_span
       /\ step' = [layer |-> p.layer, flags |-> p.flags]
       /\ UNCHANGED now

\* Time passes between packets
Tick(d, maxTime) ==
    /\ now + d <= maxTime
    /\ now' = now + d
    /\ UNCHANGED <<connections, syn_packets, conn_from, syn_from,
                   reported, alert_span, step>>

CaptureIdle ==
    /\ now = 0
    /\ connections = Empty
    /\ syn_packets = Empty
    /\ conn_from = Empty
    /\ syn_from = Empty
    /\ reported = <<>>
    /\ alert_span = <<>>
    /\ step = [layer |-> "NONE", flags |-> 0]
    /\ running = FALSE
    /\ capture_thread = 0
    /\ started = 0
    /\ alive = {}
    /\ inside = Empty
    /\ joining = FALSE

\* ---- start, stop and the capture threads ----

MaxThreads == 2       \* bound: the threads start() creates
MaxSeen == 2          \* bound: a thread takes a packet while the pair's
                      \*        count is below this

tables == <<now, connections, syn_packets, reported, step,
            conn_from, syn_from, alert_span>>

\* start() (lines 40-59): nothing when self.running is set; otherwise the
\* flag is set and a new thread runs _capture_loop
Start ==
    /\ ~joining
    /\ IF running
       THEN UNCHANGED <<running, capture_thread, started, alive>>
       ELSE /\ started < MaxThreads
            /\ running' = TRUE
            /\ started' = started + 1
            /\ capture_thread' = started + 1
            /\ alive' = alive \cup {started + 1}
    /\ UNCHANGED <<inside, joining, tables>>

\* stop() (lines 61-66): the flag is cleared and the caller joins
\* self.thread, if there is one, for at most 5 seconds
Stop ==
    /\ ~joining
    /\ running' = FALSE
    /\ joining' = (capture_thread # 0)
    /\ UNCHANGED <<capture_thread, started, alive, inside, tables>>

\* join returns because the thread has ended
JoinReturns ==
    /\ joining
    /\ capture_thread \notin alive
    /\ joining' = FALSE
    /\ UNCHANGED <<running, capture_thread, started, alive, inside, tables>>

\* join(timeout=5) returns with the thread still in sniff(): no packet has
\* made it evaluate stop_filter, or it is still inside the callback
JoinTimesOut ==
    /\ joining
    /\ capture_thread \in alive
    /\ joining' = FALSE
    /\ UNCHANGED <<running, capture_thread, started, alive, inside, tables>>

\* sniff() of thread t receives packet p and calls prn=self._process_packet
\* (line 73); every sniffing thread receives the packets on its own socket
PacketIn(t, p) ==
    /\ t \in alive
    /\ t \notin DOMAIN inside
    /\ inside' = Put(inside, t,
                     [packet |-> p,
                      seen |-> Tracker(connections, syn_packets, conn_from,
                                       syn_from, <<>>, <<>>, FALSE)])
    /\ UNCHANGED <<running, capture_thread, started, alive, joining, tables>>

\* _process_packet of thread t returns.  The threads take no lock: what t
\* writes is computed from the tables as they are now, or, when another
\* thread has written since t read them, from the tables as t found them.
\* Then sniff() evaluates stop_filter (line 76) and returns when
\* self.running is clear.
PacketOut(t) ==
    /\ t \in DOMAIN inside
    /\ \E base \in {inside[t].seen,
                     Tracker(connections, syn_packets, conn_from, syn_from,
                             <<>>, <<>>, FALSE)} :
           LET T == ProcessPacket(base, inside[t].packet, now, {})
           IN /\ connections' = T.connections
              /\ syn_packets' = T.syn_packets
              /\ conn_from' = T.conn_from
              /\ syn_from' = T.syn_from
              /\ reported' = T.reported
              /\ alert_span' = T.alert_span
    /\ step' = [layer |-> inside[t].packet.layer,
                flags |-> inside[t].packet.flags]
    /\ inside' = Drop(inside, {t})
    /\ alive' = IF running THEN alive ELSE alive \ {t}
    /\ UNCHANGED <<now, running, capture_thread, started, joining>>

-----------------------------------------------------------------------------
(***************************************************************************)
(* CorrelationAgent.correlate                                              *)
(***************************************************************************)

MaxFindings == 3      \* bound: the longest list of findings passed in

\* ThreatFinding (agents/types.py); metadata is never read by correlate
Finding(agent, type, severity, descr, ip) ==
    [agent_name |-> agent, threat_type |-> type, severity |-> severity,
     description |-> descr, source_ip |-> ip]

\* Mutant: the test for the "Unknown" sentinel left out
KnownIpTruthy(f) == f.source_ip # ""

\* f.source_ip and f.source_ip != "Unknown"
KnownIp(f) == f.source_ip # "" /\ f.source_ip # "Unknown"

\* Mutant: the pass-through event takes the default severity
PassThroughDefaultSeverity(f, source) ==
    [attack |-> f.threat_type, severity |-> "MEDIUM", source |-> source,
     agent |-> f.agent_name, description |-> f.description]

\* The pass-through event of one finding (lines 21-27 and 63-69)
PassThrough(f, source) ==
    [attack |-> f.threat_type, severity |-> f.severity, source |-> source,
     agent |-> f.agent_name, description |-> f.description]

\* A campaign event (lines 35-40, 44-49, 53-58); the description is the
\* f-string's pieces
Campaign(attack, ip, text) ==
    [attack |-> attack, severity |-> "CRITICAL", source |-> ip,
     description |-> <<"IP ", ip, text>>]

\* [g(x) for x in seq]
RECURSIVE MapSeq(_, _)
MapSeq(g(_), seq) ==
    IF seq = <<>> THEN <<>>
    ELSE <<g(Head(seq))>> \o MapSeq(g, Tail(seq))

\* First loop (lines 16-27), the events it appends: one per finding without a
\* known source, in input order
UnknownEvents(fs) ==
    LET unknown(f) == ~KnownIp(f)
        event(f) == PassThrough(f, "Unknown")
    IN MapSeq(event, SelectSeq(fs, unknown))

\* First loop (lines 16-18), the keys of ip_groups in insertion order
RECURSIVE GroupKeys(_, _)
GroupKeys(fs, seen) ==
    IF fs = <<>> THEN <<>>
    ELSE LET f == Head(fs)
         IN IF KnownIp(f) /\ f.source_ip \notin seen
            THEN <<f.source_ip>> \o GroupKeys(Tail(fs), seen \cup {f.source_ip})
            ELSE GroupKeys(Tail(fs), seen)

\* ip_groups[ip]
IpGroup(fs, ip) ==
    LET member(f) == KnownIp(f) /\ f.source_ip = ip
    IN SelectSeq(fs, member)

\* Mutant: the threat-type rule tried before the two agent rules
GroupEventsTypesFirst(ip, ip_findings) ==
    LET threat_types == {ip_findings[i].threat_type : i \in DOMAIN ip_findings}
        agent_names  == {ip_findings[i].agent_name : i \in DOMAIN ip_findings}
        event(f) == PassThrough(f, ip)
    IN IF "BRUTE_FORCE" \in threat_types
          /\ ("SQL_INJECTION" \in threat_types
              \/ "XSS_ATTACK" \in threat_types)
       THEN <<Campaign("ADVANCED_PERSISTENT_THREAT", ip,
               " exhibited brute force followed by injection attempts.")>>
       ELSE IF "EmailVerificationAgent" \in agent_names
               /\ "LogAnalysisAgent" \in agent_names
       THEN <<Campaign("MULTI_VECTOR_CAMPAIGN", ip,
               " linked to both Phishing Email and suspicious Log activity.")>>
       ELSE IF "IPRangeAnalyzerAgent" \in agent_names
               /\ "LogAnalysisAgent" \in agent_names
       THEN <<Campaign("TARGETED_EXPLOITATION", ip,
               " showed vulnerabilities in scan and now active exploit in logs.")>>
       ELSE MapSeq(event, ip_findings)

\* Second loop body (lines 30-69): the events of one group
GroupEvents(ip, ip_findings) ==
    LET threat_types == {ip_findings[i].threat_type : i \in DOMAIN ip_findings}
        agent_names  == {ip_findings[i].agent_name : i \in DOMAIN ip_findings}
        event(f) == PassThrough(f, ip)
    IN IF "EmailVerificationAgent" \in agent_names
          /\ "LogAnalysisAgent" \in agent_names
       THEN <<Campaign("MULTI_VECTOR_CAMPAIGN", ip,
               " linked to both Phishing Email and suspicious Log activity.")>>
       ELSE IF "IPRangeAnalyzerAgent" \in agent_names
               /\ "LogAnalysisAgent" \in agent_names
       THEN <<Campaign("TARGETED_EXPLOITATION", ip,
               " showed vulnerabilities in scan and now active exploit in logs.")>>
       ELSE IF "BRUTE_FORCE" \in threat_types
               /\ ("SQL_INJECTION" \in threat_types
                   \/ "XSS_ATTACK" \in threat_types)
       THEN <<Campaign("ADVANCED_PERSISTENT_THREAT", ip,
               " exhibited brute force followed by injection attempts.")>>
       ELSE MapSeq(event, ip_findings)

\* Second loop (line 29): the groups' events, in the order of the keys
RECURSIVE GroupsEvents(_, _)
GroupsEvents(fs, keys) ==
    IF keys = <<>> THEN <<>>
    ELSE GroupEvents(Head(keys), IpGroup(fs, Head(keys)))
             \o GroupsEvents(fs, Tail(keys))

\* CorrelationAgent.correlate
Correlate(fs) == UnknownEvents(fs) \o GroupsEvents(fs, GroupKeys(fs, {}))

\* The findings the runs draw from: what the three agents emit
\* (log_analyzer/agent.py, email_verification/agent.py, ip_analyzer/agent.py),
\* from two addresses, from no address ("Unknown") and with an empty one
Catalogue ==
    {<<"LogAnalysisAgent", "BRUTE_FORCE", "HIGH",
       "Repeated authentication failures detected">>,
     <<"LogAnalysisAgent", "SQL_INJECTION", "CRITICAL",
       "SQL injection pattern in WAF/Application logs">>,
     <<"LogAnalysisAgent", "XSS_ATTACK", "HIGH",
       "Cross-site scripting attempt blocked">>,
     <<"LogAnalysisAgent", "NETWORK_RECON", "MEDIUM",
       "Abnormal connection patterns or port scanning">>,
     <<"EmailVerificationAgent", "PHISHING_ATTEMPT", "MEDIUM",
       "Email contains urgent language typical of phishing">>,
     <<"IPRangeAnalyzerAgent", "EXPOSED_SERVICE", "MEDIUM",
       "Potential exposed service detected on scanned target">>}
SourceIps == {"10.0.0.5", "192.168.1.10", "Unknown", ""}
Findings ==
    {Finding(c[1], c[2], c[3], <<c[4]>>, ip) : c \in Catalogue, ip \in SourceIps}

FindingLists ==
    UNION {[1..n -> Findings] : n \in 0..MaxFindings}

CorrelateIdle ==
    /\ findings = <<>>
    /\ correlated = <<>>
    /\ cpc = "idle"
    /\ retained = <<>>
    /\ calls = <<>>

CorrelateInit ==
    /\ findings \in FindingLists
    /\ correlated = <<>>
    /\ cpc = "call"
    /\ retained = <<>>
    /\ calls = <<>>

\* correlation_agent.correlate(findings)
CorrelateCall ==
    /\ cpc = "call"
    /\ correlated' = Correlate(findings)
    /\ cpc' = "returned"
    /\ UNCHANGED <<findings, recallVars>>

\* Mutant: ip_groups is kept on the instance, so that the findings of the
\* earlier calls are grouped again with those of the call
CorrelateWithRetention(kept, fs) ==
    [events |-> Correlate(kept \o fs), findings |-> fs,
     retained |-> kept \o fs]

\* One call on the instance: correlated_events and ip_groups are locals
\* (lines 12 and 15), nothing is assigned to self, and the findings are
\* only read
CorrelateWith(kept, fs) ==
    [events |-> Correlate(fs), findings |-> fs, retained |-> kept]

MaxCalls == 3         \* bound: the calls made on one instance
MaxRecallLen == 2     \* bound: the longest list passed in these calls

\* The lists passed in the runs of repeated calls
RecallFindings ==
    {Finding("LogAnalysisAgent", "BRUTE_FORCE", "HIGH",
             <<"Repeated authentication failures detected">>, "10.0.0.5"),
     Finding("LogAnalysisAgent", "SQL_INJECTION", "CRITICAL",
             <<"SQL injection pattern in WAF/Application logs">>, "Unknown")}
RecallLists == UNION {[1..n -> RecallFindings] : n \in 0..MaxRecallLen}

\* correlation_agent.correlate(fs), again and again on the same instance
Recall ==
    /\ Len(calls) < MaxCalls
    /\ \E fs \in RecallLists :
           LET out == CorrelateWith(retained, fs)
           IN /\ findings' = out.findings
              /\ correlated' = out.events
              /\ retained' = out.retained
              /\ calls' = Append(calls, [input |-> fs,
                                         after |-> out.findings,
                                         output |-> out.events])
    /\ cpc' = "returned"

CorrelateNext ==
    CorrelateCall /\ UNCHANGED <<captureVars, reasonVars, pipelineVars, loopVars, ingestVars, apiVars>>

-----------------------------------------------------------------------------
(***************************************************************************)
(* LLMReasoningAgent.reason                                                *)
(***************************************************************************)

MaxEvents == 2        \* bound: the longest list of correlated events passed in
MaxItems == 1         \* bound: the longest JSON array the oracle answers

\* JSON values, tagged with their type: an array with its items, an object
\* with its fields, a string with its characters
Arr(items) == [t |-> "array", v |-> [items |-> items]]
Obj(fields) == [t |-> "object", v |-> fields]
Str(chars) == [t |-> "string", v |-> [chars |-> chars]]

\* Mutant: SQL_INJECTION missing from the database row of the table
MockDecisionNoSqli(finding) ==
    LET attack == finding.attack
    IN IF attack \in {"ACCOUNT_COMPROMISE", "ADVANCED_PERSISTENT_THREAT"}
       THEN Obj([decision |-> "IMMEDIATE_LOCKDOWN", severity |-> "CRITICAL",
                 actions |-> <<"Disable affected account",
                               "Force password reset", "Block attacker IP">>,
                 reason |-> <<"Correlated brute-force and high-risk injection attempts detected">>])
       ELSE IF attack \in {"DATABASE_ATTACK"}
       THEN Obj([decision |-> "DATABASE_ISOLATION", severity |-> "CRITICAL",
                 actions |-> <<"Kill active DB sessions",
                               "Reset database credentials",
                               "Lock down database subnet">>,
                 reason |-> <<"High-severity SQL injection attempts detected">>])
       ELSE Obj([decision |-> "PERIMETER_REINFORCEMENT", severity |-> "MEDIUM",
                 actions |-> <<"Update WAF rules",
                               "Patch affected application components">>,
                 reason |-> <<"Detected ", attack,
                              " pattern requiring mitigation">>])

\* _mock_reason, the loop body (lines 66-87): the decision for one event
MockDecision(finding) ==
    LET attack == finding.attack
    IN IF attack \in {"ACCOUNT_COMPROMISE", "ADVANCED_PERSISTENT_THREAT"}
       THEN Obj([decision |-> "IMMEDIATE_LOCKDOWN", severity |-> "CRITICAL",
                 actions |-> <<"Disable affected account",
                               "Force password reset", "Block attacker IP">>,
                 reason |-> <<"Correlated brute-force and high-risk injection attempts detected">>])
       ELSE IF attack \in {"DATABASE_ATTACK", "SQL_INJECTION"}
       THEN Obj([decision |-> "DATABASE_ISOLATION", severity |-> "CRITICAL",
                 actions |-> <<"Kill active DB sessions",
                               "Reset database credentials",
                               "Lock down database subnet">>,
                 reason |-> <<"High-severity SQL injection attempts detected">>])
       ELSE Obj([decision |-> "PERIMETER_REINFORCEMENT", severity |-> "MEDIUM",
                 actions |-> <<"Update WAF rules",
                               "Patch affected application components">>,
                 reason |-> <<"Detected ", attack,
                              " pattern requiring mitigation">>])

\* _mock_reason
MockReason(correlated_findings) == Arr(MapSeq(MockDecision, correlated_findings))

\* The oracle's answer is a text, here its tokens: the three-backquote fence, the word
\* json, a JSON value, prose, and what a slice leaves of a token it cuts
Fence == [kind |-> "fence"]
JsonWord == [kind |-> "json"]
Prose == [kind |-> "prose"]
Cut == [kind |-> "cut"]
Value(v) == [kind |-> "value", value |-> v]

\* text.startswith(prefix)
StartsWith(text, prefix) ==
    /\ Len(text) >= Len(prefix)
    /\ \A i \in DOMAIN prefix : text[i].kind = prefix[i].kind

\* text[:-3]: a closing fence is exactly the three characters dropped; any
\* other last token loses its end
DropLast3(text) ==
    IF text = <<>> THEN <<>>
    ELSE IF text[Len(text)].kind = "fence" THEN SubSeq(text, 1, Len(text) - 1)
    ELSE SubSeq(text, 1, Len(text) - 1) \o <<Cut>>

\* Lines 52-56: the markdown fence is sliced off
StripFence(text) ==
    IF StartsWith(text, <<Fence, JsonWord>>)
    THEN DropLast3(SubSeq(text, 3, Len(text)))
    ELSE IF StartsWith(text, <<Fence>>)
    THEN DropLast3(SubSeq(text, 2, Len(text)))
    ELSE text

\* json.loads(text): the value of a text that is one JSON value, and
\* JSONDecodeError for anything else
JsonLoads(text) ==
    IF Len(text) = 1 /\ text[1].kind = "value"
    THEN [ok |-> TRUE, value |-> text[1].value]
    ELSE [ok |-> FALSE, value |-> Arr(<<>>)]

\* Mutant: a text that does not parse is answered with an empty list
ReasonWithOracleNoFallback(correlated_findings, resp) ==
    IF resp.kind = "raise" THEN MockReason(correlated_findings)
    ELSE LET parsed == JsonLoads(StripFence(resp.text))
         IN IF parsed.ok THEN parsed.value ELSE Arr(<<>>)

\* Lines 46-61: the try block, given what generate_content did
ReasonWithOracle(correlated_findings, resp) ==
    IF resp.kind = "raise" THEN MockReason(correlated_findings)
    ELSE LET parsed == JsonLoads(StripFence(resp.text))
         IN IF parsed.ok THEN parsed.value
            ELSE MockReason(correlated_findings)

\* Mutant: the test for an empty list left out
ReasonCallNoEmptyTest ==
    /\ rpc = "call"
    /\ IF ~has_api_key
       THEN /\ decisions' = MockReason(correlated)
            /\ rpc' = "returned"
            /\ UNCHANGED oracle_calls
       ELSE /\ rpc' = "awaiting"
            /\ oracle_calls' = oracle_calls + 1
            /\ UNCHANGED decisions
    /\ UNCHANGED <<has_api_key, response>>

\* reason(), up to the oracle call (lines 21-26 and 49)
ReasonCall ==
    /\ rpc = "call"
    /\ IF correlated = <<>>
       THEN /\ decisions' = Arr(<<>>)
            /\ rpc' = "returned"
            /\ UNCHANGED oracle_calls
       ELSE IF ~has_api_key
       THEN /\ decisions' = MockReason(correlated)
            /\ rpc' = "returned"
            /\ UNCHANGED oracle_calls
       ELSE /\ rpc' = "awaiting"
            /\ oracle_calls' = oracle_calls + 1
            /\ UNCHANGED decisions
    /\ UNCHANGED <<has_api_key, response>>

\* reason(), from the oracle's answer on (lines 49-61)
OracleAnswers(resp) ==
    /\ rpc = "awaiting"
    /\ response' = resp
    /\ decisions' = ReasonWithOracle(correlated, resp)
    /\ rpc' = "returned"
    /\ UNCHANGED <<has_api_key, oracle_calls>>

\* The correlated events the runs draw from
Event(attack, severity) ==
    [attack |-> attack, severity |-> severity, source |-> "10.0.0.5",
     description |-> <<"IP ", "10.0.0.5", " seen">>]
Attacks == {"ACCOUNT_COMPROMISE", "ADVANCED_PERSISTENT_THREAT",
            "DATABASE_ATTACK", "SQL_INJECTION", "PORT_SCAN"}
Events == {Event(a, sv) : a \in Attacks, sv \in {"CRITICAL", "LOW"}}
EventLists == UNION {[1..n -> Events] : n \in 0..MaxEvents}

\* The answers the runs draw from: arrays of decisions that follow the
\* schema, that carry a severity outside the four levels, that lack the
\* actions, or that are no objects; one object instead of an array; each bare,
\* fenced, fenced without the closing fence, or behind prose; and an exception
GoodItem ==
    Obj([decision |-> "NETWORK_SEGREGATION", severity |-> "HIGH",
         actions |-> <<"Isolate VLAN">>, reason |-> <<"Lateral movement">>])
BadSeverityItem ==
    Obj([decision |-> "NETWORK_SEGREGATION", severity |-> "SEVERE",
         actions |-> <<"Isolate VLAN">>, reason |-> <<"Lateral movement">>])
NoActionsItem ==
    Obj([decision |-> "NETWORK_SEGREGATION", severity |-> "HIGH",
         reason |-> <<"Lateral movement">>])
Items == {GoodItem, BadSeverityItem, NoActionsItem, Str("isolate the VLAN")}
Bodies == {Arr(items) : items \in UNION {[1..n -> Items] : n \in 0..MaxItems}}
              \cup {GoodItem}
Texts ==
    UNION {{<<Value(b)>>,
            <<Fence, JsonWord, Value(b), Fence>>,
            <<Fence, Value(b), Fence>>,
            <<Fence, JsonWord, Value(b)>>,
            <<Prose, Value(b)>>} : b \in Bodies}
NoResponse == [kind |-> "none"]
Responses == {[kind |-> "raise"]} \cup {[kind |-> "text", text |-> t] : t \in Texts}

ReasonIdle ==
    /\ has_api_key = FALSE
    /\ rpc = "idle"
    /\ response = NoResponse
    /\ decisions = Arr(<<>>)
    /\ oracle_calls = 0

ReasonInit ==
    /\ findings = <<>>
    /\ correlated \in EventLists
    /\ cpc = "returned"
    /\ retained = <<>>
    /\ calls = <<>>
    /\ has_api_key \in BOOLEAN
    /\ rpc = "call"
    /\ response = NoResponse
    /\ decisions = Arr(<<>>)
    /\ oracle_calls = 0

OracleAnswer == \E resp \in Responses : OracleAnswers(resp)

ReasonNext ==
    \/ ReasonCall /\ UNCHANGED <<captureVars, correlateVars, pipelineVars, loopVars, ingestVars, apiVars>>
    \/ OracleAnswer /\ UNCHANGED <<captureVars, correlateVars, pipelineVars, loopVars, ingestVars, apiVars>>

-----------------------------------------------------------------------------
(***************************************************************************)
(* The pipeline: handle_live_log and _process_all                          *)
(***************************************************************************)

RESULT_TIMEOUT == 10  \* reason_future.result(timeout=10)

MaxSubmission == 1    \* bound: the findings of one submission
MaxWait == 20         \* bound: the longest wait for the oracle that is followed

\* ThreatFinding.__str__, the f-string's pieces
FindingStr(f) ==
    <<"[", f.severity, "] ", f.agent_name, " -> ", f.threat_type,
      " (", f.source_ip, "): ">> \o f.description

\* The dictionary handed to state.update
Results(fs, evs, ds, source) ==
    [raw_findings |-> MapSeq(FindingStr, fs), correlated_attacks |-> evs,
     llm_decisions |-> ds, source |-> source]

Source == IF path = "live" THEN "network_capture" ELSE "Manual Input"

\* The messages of the ws_manager calls
ThreatUpdate(evs, source) ==
    [type |-> "threat_update", new_threats |-> evs, source |-> source]
Alert(alert_type, severity) ==
    [type |-> "alert", alert_type |-> alert_type, severity |-> severity]
LogSourceUpdate(source, st) ==
    [type |-> "log_source_update", source |-> source, stats |-> st]

IsCritical(ev) == ev.severity \in {"CRITICAL", "HIGH"}

\* handle_live_log lines 153-161: one alert for each CRITICAL or HIGH attack
RECURSIVE LiveAlerts(_)
LiveAlerts(evs) ==
    IF evs = <<>> THEN <<>>
    ELSE (IF IsCritical(Head(evs))
          THEN <<Alert("live_threat", Head(evs).severity)>> ELSE <<>>)
         \o LiveAlerts(Tail(evs))

\* _process_all lines 209-215: one alert if any attack is CRITICAL or HIGH
RequestAlerts(evs) ==
    IF \E i \in DOMAIN evs : IsCritical(evs[i])
    THEN <<Alert("critical_threat", "CRITICAL")>> ELSE <<>>

\* The handler is entered: handle_live_log counts the event (lines 109-110)
\* and submits analyze; an endpoint awaits its agent's analyze
Submit ==
    /\ ppc = "submitted"
    /\ stats' = IF path = "live" THEN [stats EXCEPT !.events = @ + 1]
                ELSE stats
    /\ ppc' = "classifying"
    /\ UNCHANGED <<correlateVars, reasonVars, path, waited, sink, broadcasts>>

\* future.result(timeout=10) waits for analyze (line 117)
AnalyzeWait(d) ==
    /\ path = "live"
    /\ ppc = "classifying"
    /\ waited < RESULT_TIMEOUT
    /\ waited' = waited + d
    /\ UNCHANGED <<correlateVars, reasonVars, path, ppc, sink, stats,
                   broadcasts>>

\* future.result(timeout=10) raises TimeoutError (line 117), which the
\* handler's except Exception prints (lines 168-169)
AnalyzeTimeout ==
    /\ path = "live"
    /\ ppc = "classifying"
    /\ waited >= RESULT_TIMEOUT
    /\ ppc' = "failed_analyze"
    /\ UNCHANGED <<correlateVars, reasonVars, path, waited, sink, stats,
                   broadcasts>>

\* analyze returns the findings fs
Classified(fs) ==
    /\ ppc = "classifying"
    /\ findings' = fs
    /\ waited' = 0
    /\ ppc' = "start"
    /\ UNCHANGED <<correlated, cpc, recallVars, reasonVars, path, sink, stats,
                   broadcasts>>

\* correlate, and the call of reason that follows it; handle_live_log does
\* neither without findings and goes on to its last broadcast (lines 163-166)
PipelineCorrelate ==
    /\ ppc = "start"
    /\ IF path = "live" /\ findings = <<>>
       THEN /\ ppc' = "done"
            /\ broadcasts' = Append(broadcasts, LogSourceUpdate(Source, stats))
            /\ UNCHANGED <<correlated, cpc, rpc, stats>>
       ELSE /\ correlated' = Correlate(findings)
            /\ cpc' = "returned"
            /\ rpc' = "call"
            /\ ppc' = "reasoning"
            /\ stats' = IF path = "live"
                        THEN [stats EXCEPT
                                  !.threats = @ + Len(Correlate(findings))]
                        ELSE stats
            /\ UNCHANGED broadcasts
    /\ UNCHANGED <<findings, recallVars, has_api_key, response, decisions,
                   oracle_calls, path, waited, sink>>

\* The caller waits while the oracle has not answered
OracleWait(d) ==
    /\ ppc = "reasoning"
    /\ rpc = "awaiting"
    /\ waited < MaxWait
    /\ path = "live" => waited < RESULT_TIMEOUT
    /\ waited' = waited + d
    /\ UNCHANGED <<correlateVars, reasonVars, path, ppc, sink, stats,
                   broadcasts>>

\* reason_future.result(timeout=10) raises TimeoutError, which the handler's
\* except Exception prints (lines 168-169)
LiveTimeout ==
    /\ path = "live"
    /\ ppc = "reasoning"
    /\ rpc = "awaiting"
    /\ waited >= RESULT_TIMEOUT
    /\ ppc' = "failed_reason"
    /\ UNCHANGED <<correlateVars, reasonVars, path, waited, sink, stats,
                   broadcasts>>

\* state.update with what reason returned, and the broadcasts after it
StateUpdate ==
    /\ ppc = "reasoning"
    /\ rpc = "returned"
    /\ sink' = Append(sink, Results(findings, correlated, decisions, Source))
    /\ broadcasts' =
           IF path = "live"
           THEN broadcasts \o <<ThreatUpdate(correlated, Source)>>
                    \o LiveAlerts(correlated)
                    \o <<LogSourceUpdate(Source, stats)>>
           ELSE broadcasts \o <<ThreatUpdate(correlated, Source)>>
                    \o RequestAlerts(correlated)
    /\ ppc' = "done"
    /\ UNCHANGED <<correlateVars, reasonVars, path, waited, stats>>

\* What one agent emits on one submission: the log analyzer takes the address
\* from the line or says "Unknown", the other two pass on what their oracle
\* answered
Agents == {c[1] : c \in Catalogue}
Emitted(agent) ==
    {f \in Findings : /\ f.agent_name = agent
                      /\ agent = "LogAnalysisAgent" => f.source_ip # ""}
WaitDeltas == {5}
PipelineResponses ==
    {[kind |-> "raise"],
     [kind |-> "text", text |-> <<Value(Arr(<<GoodItem>>))>>],
     [kind |-> "text",
      text |-> <<Fence, JsonWord, Value(Arr(<<GoodItem>>)), Fence>>]}

NoStats == [events |-> 0, threats |-> 0]

PipelineIdle ==
    /\ path = "none"
    /\ ppc = "idle"
    /\ waited = 0
    /\ sink = <<>>
    /\ stats = NoStats
    /\ broadcasts = <<>>

\* The findings analyze can return on the path taken
Analyses ==
    UNION {UNION {[1..n -> Emitted(agent)] : n \in 0..MaxSubmission} :
               agent \in IF path = "live" THEN {"LogAnalysisAgent"}
                         ELSE Agents}

PipelineInit ==
    /\ path \in {"live", "request"}
    /\ findings = <<>>
    /\ correlated = <<>>
    /\ cpc = "call"
    /\ retained = <<>>
    /\ calls = <<>>
    /\ has_api_key \in BOOLEAN
    /\ rpc = "idle"
    /\ response = NoResponse
    /\ decisions = Arr(<<>>)
    /\ oracle_calls = 0
    /\ ppc = "submitted"
    /\ waited = 0
    /\ sink = <<>>
    /\ stats = NoStats
    /\ broadcasts = <<>>

\* The entry points (main.py lines 221-248 and 112-121): each awaits the
\* analyze of one agent, and every agent builds its findings with
\* agent_name=self.name (log_analyzer/agent.py line 24,
\* email_verification/agent.py lines 37 and 74, ip_analyzer/agent.py lines
\* 35 and 70)
MaxEntry == 2         \* bound: the findings of one submission (entry runs)
EntryIps == {"10.0.0.5", "Unknown"}

\* Mutant: an agent hands on findings that carry another agent's name
EntryEmittedAnyAgent(agent) == {f \in Findings : f.source_ip \in EntryIps}

EntryEmitted(agent) == {f \in Emitted(agent) : f.source_ip \in EntryIps}
EntryAnalyses ==
    UNION {UNION {[1..n -> EntryEmitted(agent)] : n \in 0..MaxEntry} :
               agent \in IF path = "live" THEN {"LogAnalysisAgent"}
                         ELSE Agents}
EntryClassified == \E fs \in EntryAnalyses : Classified(fs)

PipelineAnalyzeWait == \E d \in WaitDeltas : AnalyzeWait(d)
PipelineClassified == \E fs \in Analyses : Classified(fs)
PipelineOracleWait == \E d \in WaitDeltas : OracleWait(d)
PipelineOracleAnswer == \E resp \in PipelineResponses : OracleAnswers(resp)

PipelineNext ==
    \/ Submit /\ UNCHANGED <<captureVars, loopVars, ingestVars, apiVars>>
    \/ PipelineAnalyzeWait /\ UNCHANGED <<captureVars, loopVars, ingestVars, apiVars>>
    \/ AnalyzeTimeout /\ UNCHANGED <<captureVars, loopVars, ingestVars, apiVars>>
    \/ PipelineClassified /\ UNCHANGED <<captureVars, loopVars, ingestVars, apiVars>>
    \/ PipelineCorrelate /\ UNCHANGED <<captureVars, loopVars, ingestVars, apiVars>>
    \/ ReasonCall /\ UNCHANGED <<captureVars, correlateVars, pipelineVars, loopVars, ingestVars, apiVars>>
    \/ PipelineOracleWait /\ UNCHANGED <<captureVars, loopVars, ingestVars, apiVars>>
    \/ PipelineOracleAnswer
           /\ UNCHANGED <<captureVars, correlateVars, pipelineVars, loopVars, ingestVars, apiVars>>
    \/ LiveTimeout /\ UNCHANGED <<captureVars, loopVars, ingestVars, apiVars>>
    \/ StateUpdate /\ UNCHANGED <<captureVars, loopVars, ingestVars, apiVars>>

EntryNext ==
    \/ Submit /\ UNCHANGED <<captureVars, loopVars, ingestVars, apiVars>>
    \/ EntryClassified /\ UNCHANGED <<captureVars, loopVars, ingestVars, apiVars>>
    \/ PipelineCorrelate /\ UNCHANGED <<captureVars, loopVars, ingestVars, apiVars>>
    \/ ReasonCall /\ UNCHANGED <<captureVars, correlateVars, pipelineVars, loopVars, ingestVars, apiVars>>
    \/ PipelineOracleAnswer
           /\ UNCHANGED <<captureVars, correlateVars, pipelineVars, loopVars, ingestVars, apiVars>>
    \/ StateUpdate /\ UNCHANGED <<captureVars, loopVars, ingestVars, apiVars>>

-----------------------------------------------------------------------------
(***************************************************************************)
(* Producer threads, HTTP requests and the main event loop                 *)
(*                                                                         *)
(* Every ingestor thread calls handle_live_log as its callback; the        *)
(* handler runs in that thread and hands analyze, reason and the           *)
(* broadcasts to the main loop with asyncio.run_coroutine_threadsafe.  An  *)
(* endpoint and its _process_all run as one task of the loop.  The loop    *)
(* runs one task at a time up to the task's next await.                    *)
(***************************************************************************)

MaxLive == 2          \* bound: the events the producer threads deliver
MaxBroadcast == 2     \* bound: the same, in the runs with dashboards connected

Producers == {"web_server_logs", "network_capture"}
ClientSet == {"dashboard-1", "dashboard-2"}
RequestEvent == <<"request", 1>>

\* A task of the loop: its coroutine, the event it works for, and how far it
\* has come (for a broadcast, the index of the next connection)
Task(kind, ev, at) == [kind |-> kind, ev |-> ev, at |-> at]

\* call_soon_threadsafe and the wake-up of a suspended task: the task goes to
\* the end of the loop's ready queue
Schedule(queue, task) == Append(queue, task)

Future(kind, ev, found) == [kind |-> kind, ev |-> ev, found |-> found]
HasResult(kind, ev) == \E f \in futures : f.kind = kind /\ f.ev = ev
ResultOf(kind, ev) == CHOOSE f \in futures : f.kind = kind /\ f.ev = ev

EventOf(p) == <<p, thread[p].n>>

\* The keys of log_source_stats (main.py lines 91-95)
StatsKeys == {"windows_events", "web_server_logs", "network_capture"}

\* The "source" field of the records a producer delivers
\* (web_server_logs.py line 213, network_capture.py line 196)
SourceOf(p) ==
    IF p = "web_server_logs" THEN "web_server_log" ELSE "network_capture"

\* if source in log_source_stats: log_source_stats[source][field] += n
CountFor(st, source, field, n) ==
    IF source \in StatsKeys
    THEN [st EXCEPT ![source] =
              IF field = "events" THEN [@ EXCEPT !.events = @ + n]
              ELSE [@ EXCEPT !.threats = @ + n]]
    ELSE st

\* handle_live_log is entered (lines 97-116): the event is counted and
\* analyze is handed to the loop
Deliver(p) ==
    /\ thread[p].pc = "idle"
    /\ pending > 0
    /\ pending' = pending - 1
    /\ thread' = [thread EXCEPT ![p] = [pc |-> "analyze", n |-> @.n + 1]]
    /\ source_stats' = CountFor(source_stats, SourceOf(p), "events", 1)
    /\ ready' = Schedule(ready, Task("analyze", <<p, thread[p].n + 1>>, 0))
    /\ UNCHANGED <<request, awaiting, sending, futures, clients, inbox, updates>>

\* The loop runs log_analyzer.analyze, which has no await: the line holds no
\* threat, one of MEDIUM severity, or one of HIGH severity
RunAnalyze ==
    /\ ready # <<>>
    /\ Head(ready).kind = "analyze"
    /\ \E found \in {"none", "MEDIUM", "HIGH"} :
           futures' = futures \cup {Future("analyze", Head(ready).ev, found)}
    /\ ready' = Tail(ready)
    /\ UNCHANGED <<thread, request, awaiting, sending, clients, inbox, updates,
                   source_stats, pending>>

\* future.result returns the findings (lines 117-128): without findings the
\* handler goes to its last broadcast; with findings it correlates, counts
\* the threats and hands reason to the loop
AnalyzeResult(p) ==
    /\ thread[p].pc = "analyze"
    /\ HasResult("analyze", EventOf(p))
    /\ IF ResultOf("analyze", EventOf(p)).found = "none"
       THEN /\ thread' = [thread EXCEPT ![p].pc = "idle"]
            /\ ready' = IF SourceOf(p) \in StatsKeys
                         THEN Schedule(ready,
                                       Task("log_source_update", EventOf(p), 1))
                         ELSE ready
            /\ UNCHANGED source_stats
       ELSE /\ thread' = [thread EXCEPT ![p].pc = "reason"]
            /\ source_stats' = CountFor(source_stats, SourceOf(p), "threats", 1)
            /\ ready' = Schedule(ready, Task("reason", EventOf(p), 0))
    /\ UNCHANGED <<request, awaiting, sending, futures, clients, inbox, updates,
                   pending>>

\* future.result(timeout=10) raises and nothing catches it: the exception
\* leaves handle_live_log and ends the producer's thread
AnalyzeTimedOutUncaught(p) ==
    /\ thread[p].pc = "analyze"
    /\ ~HasResult("analyze", EventOf(p))
    /\ thread' = [thread EXCEPT ![p].pc = "raised"]
    /\ UNCHANGED <<request, ready, awaiting, sending, futures, clients, inbox,
                   updates, source_stats, pending>>

\* future.result(timeout=10) raises before the loop has run analyze: the
\* except clause of the handler (lines 168-169) prints it and the handler
\* returns to the producer
AnalyzeTimedOut(p) ==
    /\ thread[p].pc = "analyze"
    /\ ~HasResult("analyze", EventOf(p))
    /\ thread' = [thread EXCEPT ![p].pc = "idle"]
    /\ UNCHANGED <<request, ready, awaiting, sending, futures, clients, inbox,
                   updates, source_stats, pending>>

\* The loop runs reason for a live event: without an API key it returns at
\* once; with one it suspends on the oracle call and returns when resumed
RunReason ==
    /\ ready # <<>>
    /\ Head(ready).kind = "reason"
    /\ IF has_api_key /\ Head(ready).at = 0
       THEN /\ awaiting' = awaiting \cup {Head(ready)}
            /\ UNCHANGED futures
       ELSE /\ futures' = futures \cup
                   {Future("reason", Head(ready).ev,
                           ResultOf("analyze", Head(ready).ev).found)}
            /\ UNCHANGED awaiting
    /\ ready' = Tail(ready)
    /\ UNCHANGED <<thread, request, sending, clients, inbox, updates,
                   source_stats, pending>>

\* The oracle call of a suspended task ends and the task is ready again
OracleReturns(task) ==
    /\ task \in awaiting
    /\ awaiting' = awaiting \ {task}
    /\ ready' = Schedule(ready, [task EXCEPT !.at = 1])
    /\ UNCHANGED <<thread, request, sending, futures, clients, inbox, updates,
                   source_stats, pending>>

\* The coroutines handle_live_log hands to the loop after state.update
\* (lines 140-166)
LiveBroadcasts(ev, found) ==
    <<Task("threat_update", ev, 1)>>
        \o (IF found = "HIGH" THEN <<Task("alert", ev, 1)>> ELSE <<>>)
        \o (IF SourceOf(ev[1]) \in StatsKeys
            THEN <<Task("log_source_update", ev, 1)>> ELSE <<>>)

RECURSIVE ScheduleAll(_, _)
ScheduleAll(queue, tasks) ==
    IF tasks = <<>> THEN queue
    ELSE ScheduleAll(Schedule(queue, Head(tasks)), Tail(tasks))

\* reason_future.result returns the decisions (lines 129-166): state.update
\* and the broadcasts
ReasonResult(p) ==
    /\ thread[p].pc = "reason"
    /\ HasResult("reason", EventOf(p))
    /\ updates' = Append(updates, EventOf(p))
    /\ ready' = ScheduleAll(ready,
                    LiveBroadcasts(EventOf(p),
                                   ResultOf("reason", EventOf(p)).found))
    /\ thread' = [thread EXCEPT ![p].pc = "idle"]
    /\ UNCHANGED <<request, awaiting, sending, futures, clients, inbox,
                   source_stats, pending>>

\* reason_future.result(timeout=10) raises before reason has returned
ReasonTimedOut(p) ==
    /\ thread[p].pc = "reason"
    /\ ~HasResult("reason", EventOf(p))
    /\ thread' = [thread EXCEPT ![p].pc = "idle"]
    /\ UNCHANGED <<request, ready, awaiting, sending, futures, clients, inbox,
                   updates, source_stats, pending>>

\* ConnectionManager.broadcast (websocket_manager.py lines 51-67): the task at
\* the head of the queue sends to the connections in list order, from the one
\* it has come to.  A send returns at once while the connection takes the
\* message; otherwise it suspends the task until the connection has taken
\* it, and a send to a connection that still holds an earlier message waits
\* behind that message.
Message(task) == [type |-> task.kind, ev |-> task.ev]
BroadcastKinds == {"threat_update", "alert", "log_source_update"}
Busy(c) == sending[c] # <<>>
RunBroadcast ==
    /\ ready # <<>>
    /\ Head(ready).kind \in BroadcastKinds
    /\ LET task == Head(ready)
       IN IF task.at > Len(clients)
          THEN /\ ready' = Tail(ready)
               /\ UNCHANGED <<inbox, sending>>
          ELSE \E k \in task.at..Len(clients) :
                 /\ \A i \in task.at..(k - 1) : ~Busy(clients[i])
                 /\ inbox' = [c \in ClientSet |->
                                 IF \E i \in task.at..k : clients[i] = c
                                 THEN Append(inbox[c], Message(task))
                                 ELSE inbox[c]]
                 /\ ready' = Tail(ready)
                 /\ \/ /\ k = Len(clients)
                       /\ ~Busy(clients[k])
                       /\ UNCHANGED sending
                    \/ sending' = [sending EXCEPT ![clients[k]] =
                                       Append(@, [task EXCEPT !.at = k + 1])]
    /\ UNCHANGED <<thread, request, awaiting, futures, clients, updates,
                   source_stats, pending>>

\* A connection has taken the oldest message pending on it: the task that
\* sent it is ready again
SendCompletes(c) ==
    /\ sending[c] # <<>>
    /\ sending' = [sending EXCEPT ![c] = Tail(@)]
    /\ ready' = Schedule(ready, Head(sending[c]))
    /\ UNCHANGED <<thread, request, awaiting, futures, clients, inbox, updates,
                   source_stats, pending>>

\* list.remove(x)
Remove(seq, x) == SelectSeq(seq, LAMBDA y : y # x)

\* websocket_endpoint sees its connection closed and calls
\* ConnectionManager.disconnect (main.py lines 393-398, websocket_manager.py
\* lines 33-40): the connection leaves active_connections.  A broadcast
\* suspended in its loop over that list keeps the index it has come to.
Disconnect(c) ==
    /\ \E i \in DOMAIN clients : clients[i] = c
    /\ clients' = Remove(clients, c)
    /\ UNCHANGED <<thread, request, ready, awaiting, sending, futures, inbox,
                   updates, source_stats, pending>>

\* An HTTP request arrives: its endpoint is a task of the loop
RequestArrives ==
    /\ request = "none"
    /\ request' = "queued"
    /\ ready' = Schedule(ready, Task("process_all", RequestEvent, 0))
    /\ UNCHANGED <<thread, awaiting, sending, futures, clients, inbox, updates,
                   source_stats, pending>>

\* The endpoint and _process_all (lines 185-217): analyze, correlate and
\* reason, which suspends on the oracle with an API key; then state.update,
\* and the task goes on, without leaving the loop, as the broadcast of its
\* threat_update
RunProcessAll ==
    /\ ready # <<>>
    /\ Head(ready).kind = "process_all"
    /\ IF has_api_key /\ Head(ready).at = 0
       THEN /\ awaiting' = awaiting \cup {Head(ready)}
            /\ request' = "processing"
            /\ ready' = Tail(ready)
            /\ UNCHANGED updates
       ELSE /\ updates' = Append(updates, RequestEvent)
            /\ request' = "done"
            /\ ready' = <<Task("threat_update", RequestEvent, 1)>>
                            \o Tail(ready)
            /\ UNCHANGED awaiting
    /\ UNCHANGED <<thread, sending, futures, clients, inbox, source_stats, pending>>

LoopIdle ==
    /\ thread = [p \in Producers |-> [pc |-> "idle", n |-> 0]]
    /\ request = "none"
    /\ ready = <<>>
    /\ awaiting = {}
    /\ sending = [c \in ClientSet |-> <<>>]
    /\ futures = {}
    /\ clients = <<>>
    /\ inbox = [c \in ClientSet |-> <<>>]
    /\ updates = <<>>
    /\ source_stats = [k \in StatsKeys |-> NoStats]
    /\ pending = 0

\* The producers have events to deliver, and no dashboard is connected
LoopInit ==
    /\ thread = [p \in Producers |-> [pc |-> "idle", n |-> 0]]
    /\ request = "none"
    /\ ready = <<>>
    /\ awaiting = {}
    /\ sending = [c \in ClientSet |-> <<>>]
    /\ futures = {}
    /\ clients = <<>>
    /\ inbox = [c \in ClientSet |-> <<>>]
    /\ updates = <<>>
    /\ source_stats = [k \in StatsKeys |-> NoStats]
    /\ pending = MaxLive

\* Two dashboards have connected (ConnectionManager.connect)
LoopConnected ==
    /\ thread = [p \in Producers |-> [pc |-> "idle", n |-> 0]]
    /\ request = "none"
    /\ ready = <<>>
    /\ awaiting = {}
    /\ sending = [c \in ClientSet |-> <<>>]
    /\ futures = {}
    /\ clients = <<"dashboard-1", "dashboard-2">>
    /\ inbox = [c \in ClientSet |-> <<>>]
    /\ updates = <<>>
    /\ source_stats = [k \in StatsKeys |-> NoStats]
    /\ pending = MaxBroadcast

\* The agents are constructed with or without GEMINI_API_KEY
LoopReasonInit ==
    /\ has_api_key \in BOOLEAN
    /\ rpc = "idle"
    /\ response = NoResponse
    /\ decisions = Arr(<<>>)
    /\ oracle_calls = 0

ProducerStep ==
    \E p \in Producers :
        \/ Deliver(p)
        \/ AnalyzeResult(p)
        \/ AnalyzeTimedOut(p)
        \/ ReasonResult(p)
        \/ ReasonTimedOut(p)
OracleStep == \E task \in awaiting : OracleReturns(task)
ClientStep == \E c \in ClientSet : SendCompletes(c)

otherThanLoop == <<captureVars, correlateVars, reasonVars, pipelineVars,
                   ingestVars, apiVars>>

BroadcastNext ==
    \/ ProducerStep /\ UNCHANGED otherThanLoop
    \/ RunAnalyze /\ UNCHANGED otherThanLoop
    \/ RunReason /\ UNCHANGED otherThanLoop
    \/ OracleStep /\ UNCHANGED otherThanLoop
    \/ RunBroadcast /\ UNCHANGED otherThanLoop
    \/ ClientStep /\ UNCHANGED otherThanLoop

DisconnectStep == \E c \in ClientSet : Disconnect(c)

DeliveryNext ==
    \/ ProducerStep /\ UNCHANGED otherThanLoop
    \/ RunAnalyze /\ UNCHANGED otherThanLoop
    \/ RunReason /\ UNCHANGED otherThanLoop
    \/ OracleStep /\ UNCHANGED otherThanLoop
    \/ RunBroadcast /\ UNCHANGED otherThanLoop
    \/ ClientStep /\ UNCHANGED otherThanLoop
    \/ DisconnectStep /\ UNCHANGED otherThanLoop

LoopNext ==
    \/ ProducerStep /\ UNCHANGED otherThanLoop
    \/ RunAnalyze /\ UNCHANGED otherThanLoop
    \/ RunReason /\ UNCHANGED otherThanLoop
    \/ OracleStep /\ UNCHANGED otherThanLoop
    \/ RunBroadcast /\ UNCHANGED otherThanLoop
    \/ RequestArrives /\ UNCHANGED otherThanLoop
    \/ RunProcessAll /\ UNCHANGED otherThanLoop

-----------------------------------------------------------------------------
(***************************************************************************)
(* LogAnalysisAgent.analyze (agents/log_analyzer/agent.py)                 *)
(*                                                                         *)
(* A text is a sequence of pieces; each piece stands for the run of        *)
(* characters written in it.  The pieces are chosen so that no phrase of   *)
(* a rule and no IP address lies across two of them.                       *)
(***************************************************************************)

MaxLogLen == 4        \* bound: the pieces of the longest text analysed

NL == "\n"
Whitespace == {" ", "\t"}
Pieces == {NL, " ", "Failed password", "../", "sshd", "select",
           "[10.0.0.5]"}

\* str.lower and str.upper on a piece
Lower(w) ==
    CASE w = "Failed password" -> "failed password"
      [] w = "Port scan detected from " -> "port scan detected from "
      [] w = "SYN flood detected from " -> "syn flood detected from "
      [] OTHER -> w
Upper(w) ==
    CASE w = "Failed password" -> "FAILED PASSWORD"
      [] w = "sshd" -> "SSHD"
      [] w = "select" -> "SELECT"
      [] w = "Port scan detected from " -> "PORT SCAN DETECTED FROM "
      [] w = "SYN flood detected from " -> "SYN FLOOD DETECTED FROM "
      [] w = " to " -> " TO "
      [] w = " (N ports)" -> " (N PORTS)"
      [] w = ":80 (N packets)" -> ":80 (N PACKETS)"
      [] OTHER -> w

\* "p in s": the phrases of the rules that occur in a run of characters
PhrasesIn(s) ==
    CASE s = "failed password" -> {"failed password", "failed"}
      [] s = "sshd" -> {"ssh"}
      [] s = "SELECT" -> {"SELECT"}
      [] s = "../" -> {"../"}
      [] s = "port scan detected from " -> {"port scan"}
      [] OTHER -> {}

LineLower(line) == [i \in DOMAIN line |-> Lower(line[i])]
LineUpper(line) == [i \in DOMAIN line |-> Upper(line[i])]
In(p, text) == \E i \in DOMAIN text : p \in PhrasesIn(text[i])
AnyIn(phrases, text) == \E p \in phrases : In(p, text)

\* self.ip_pattern.search(line) (lines 9, 18-19): the first address
IpIn(w) ==
    CASE w = "[10.0.0.5]" -> <<"10.0.0.5">>
      [] w \in {"10.0.0.5", "10.0.0.1", "192.168.1.10"} -> <<w>>
      [] OTHER -> <<>>
RECURSIVE IpSearch(_)
IpSearch(line) ==
    IF line = <<>> THEN "Unknown"
    ELSE IF IpIn(Head(line)) # <<>> THEN IpIn(Head(line))[1]
    ELSE IpSearch(Tail(line))

\* The conditions of the nine rules (lines 22, 32, 42, 52, 62, 72, 82, 92,
\* 102)
AuthFailure(line) ==
    AnyIn({"authentication failure", "failed password",
           "unauthorized access", "access denied"}, LineLower(line))
SqlInjection(line) ==
    AnyIn({"SQL INJECTION", "SELECT", "UNION SELECT", "INSERT INTO",
           "DROP TABLE", "OR 1=1"}, LineUpper(line))
Xss(line) ==
    AnyIn({"xss attempt", "<script>", "javascript:", "onerror="},
          LineLower(line))
NetworkRecon(line) ==
    \/ AnyIn({"port scan", "nmap", "masscan"}, LineLower(line))
    \/ In("firewall", LineLower(line)) /\ In("spt=", LineLower(line))
PathTraversal(line) ==
    AnyIn({"../", "/etc/passwd", "/windows/system32", "boot.ini",
           "/etc/shadow"}, LineLower(line))
CommandInjection(line) ==
    AnyIn({"; cat ", "; ls ", "&& id", "|| whoami", "curl http",
           "wget http", "reverse_shell", "/tmp/"}, LineLower(line))
DataExfiltration(line) ==
    AnyIn({"large outbound", "gb", "mb", "tor exit", "base64",
           "openssl enc"}, LineLower(line))
ReconTool(line) ==
    AnyIn({"sqlmap", "nikto", "dirbuster", "gobuster", "metasploit"},
          LineLower(line))
ServiceBruteForce(line) ==
    \/ In("ssh", LineLower(line)) /\ In("failed", LineLower(line))
    \/ In("ftp", LineLower(line)) /\ In("530", LineLower(line))

AgentName == "LogAnalysisAgent"
Found(type, descr, severity, ip) == Finding(AgentName, type, severity, descr, ip)

\* The finding each rule appends
RuleFinding(k, ip) ==
    CASE k = 1 -> Found("BRUTE_FORCE",
                        "Repeated authentication failures detected",
                        "HIGH", ip)
      [] k = 2 -> Found("SQL_INJECTION",
                        "SQL injection pattern in WAF/Application logs",
                        "CRITICAL", ip)
      [] k = 3 -> Found("XSS_ATTACK",
                        "Cross-site scripting attempt blocked", "HIGH", ip)
      [] k = 4 -> Found("NETWORK_RECON",
                        "Abnormal connection patterns or port scanning",
                        "MEDIUM", ip)
      [] k = 5 -> Found("PATH_TRAVERSAL",
                        "Attempt to access sensitive files via path traversal",
                        "HIGH", ip)
      [] k = 6 -> Found("COMMAND_INJECTION",
                        "Potential OS command injection or suspicious process execution detected",
                        "CRITICAL", ip)
      [] k = 7 -> Found("DATA_EXFILTRATION",
                        "Suspicious data transfer or network connection detected",
                        "HIGH", ip)
      [] k = 8 -> Found("RECON_TOOL",
                        "Automated security scanner detected", "MEDIUM", ip)
      [] k = 9 -> Found("BRUTE_FORCE",
                        "Service-specific authentication failure (SSH/FTP)",
                        "HIGH", ip)

When(cond, finding) == IF cond THEN <<finding>> ELSE <<>>

\* Mutant: the rules chained with elif, so that the first rule that
\* matches ends the evaluation of the line
AnalyzeLineElif(line) ==
    LET ip == IpSearch(line)
    IN  IF AuthFailure(line) THEN <<RuleFinding(1, ip)>>
        ELSE IF SqlInjection(line) THEN <<RuleFinding(2, ip)>>
        ELSE IF Xss(line) THEN <<RuleFinding(3, ip)>>
        ELSE IF NetworkRecon(line) THEN <<RuleFinding(4, ip)>>
        ELSE IF PathTraversal(line) THEN <<RuleFinding(5, ip)>>
        ELSE IF CommandInjection(line) THEN <<RuleFinding(6, ip)>>
        ELSE IF DataExfiltration(line) THEN <<RuleFinding(7, ip)>>
        ELSE IF ReconTool(line) THEN <<RuleFinding(8, ip)>>
        ELSE IF ServiceBruteForce(line) THEN <<RuleFinding(9, ip)>>
        ELSE <<>>

\* The body of the loop for one line that is not blank (lines 18-109):
\* nine if statements, each appending its finding
AnalyzeLine(line) ==
    LET ip == IpSearch(line)
    IN  When(AuthFailure(line), RuleFinding(1, ip))
        \o When(SqlInjection(line), RuleFinding(2, ip))
        \o When(Xss(line), RuleFinding(3, ip))
        \o When(NetworkRecon(line), RuleFinding(4, ip))
        \o When(PathTraversal(line), RuleFinding(5, ip))
        \o When(CommandInjection(line), RuleFinding(6, ip))
        \o When(DataExfiltration(line), RuleFinding(7, ip))
        \o When(ReconTool(line), RuleFinding(8, ip))
        \o When(ServiceBruteForce(line), RuleFinding(9, ip))

\* logs.split('\n') (line 13)
RECURSIVE Split(_)
Split(text) ==
    IF \A i \in DOMAIN text : text[i] # NL THEN <<text>>
    ELSE LET i == CHOOSE j \in DOMAIN text :
                      text[j] = NL /\ \A k \in 1..(j - 1) : text[k] # NL
         IN <<SubSeq(text, 1, i - 1)>>
                \o Split(SubSeq(text, i + 1, Len(text)))

\* not line.strip() (line 16)
Blank(line) == \A i \in DOMAIN line : line[i] \in Whitespace

\* Mutant: the loop ends at the first blank line (break for continue)
RECURSIVE AnalyzeLinesBreak(_, _)
AnalyzeLinesBreak(lines, found) ==
    IF lines = <<>> THEN found
    ELSE IF Blank(Head(lines)) THEN found
    ELSE AnalyzeLinesBreak(Tail(lines), found \o AnalyzeLine(Head(lines)))

\* for line in lines (lines 15-109), findings being the list so far
RECURSIVE AnalyzeLines(_, _)
AnalyzeLines(lines, found) ==
    IF lines = <<>> THEN found
    ELSE IF Blank(Head(lines)) THEN AnalyzeLines(Tail(lines), found)
    ELSE AnalyzeLines(Tail(lines), found \o AnalyzeLine(Head(lines)))

Analyze(text) == AnalyzeLines(Split(text), <<>>)

RECURSIVE TextsUpTo(_)
TextsUpTo(n) ==
    IF n = 0 THEN {<<>>}
    ELSE TextsUpTo(n - 1) \cup {Append(t, w) : t \in TextsUpTo(n - 1), w \in Pieces}
LogTexts == TextsUpTo(MaxLogLen)

\* await log_analyzer.analyze(logs)
AnalyzeCall ==
    /\ ~analyzed
    /\ analysis' = Analyze(logs)
    /\ analyzed' = TRUE
    /\ UNCHANGED logs

AnalyzerIdle == logs = <<>> /\ analysis = <<>> /\ analyzed = FALSE
AnalyzerInit == logs \in LogTexts /\ analysis = <<>> /\ analyzed = FALSE

-----------------------------------------------------------------------------
(***************************************************************************)
(* WebServerLogParser (log_ingestors/web_server_logs.py)                   *)
(*                                                                         *)
(* A line of the access log is given by the format it is written in and    *)
(* by the fields the format's pattern captures from it.                    *)
(***************************************************************************)

MaxLines == 2         \* bound: the lines appended to the watched file
MaxThreats == 3       \* bound: the longest list passed to normalize_log

ClientIp == "203.0.113.7"
Line(format, request_path, status, user_agent) ==
    [format |-> format, ip |-> ClientIp, method |-> "GET", path |-> request_path,
     status |-> status, user_agent |-> user_agent]

Paths == {"/index.html", "/%3Cscript%3E/../<script>",
          "/item?id='OR'/../etc/passwd"}
Statuses == {200, 401, 403}
UserAgents == {"Mozilla/5.0", "sqlmap/1.7"}

\* A line that matches neither pattern: free text
Garbage == Line("none", "", 0, "")
AccessLines ==
    {Garbage}
        \cup {Line("common", p, s, "") : p \in Paths, s \in Statuses}
        \cup {Line("combined", p, s, u) :
                  p \in Paths, s \in Statuses, u \in UserAgents}

\* parse_line (lines 79-113): the combined pattern, else the common
\* pattern with referer and user_agent empty, else None
NoParse == [format |-> "none"]
ParseLine(line) ==
    IF line.format = "combined"
    THEN [format |-> "combined", ip |-> line.ip, method |-> line.method,
          path |-> line.path, status |-> line.status,
          user_agent |-> line.user_agent]
    ELSE IF line.format = "common"
    THEN [format |-> "common", ip |-> line.ip, method |-> line.method,
          path |-> line.path, status |-> line.status, user_agent |-> ""]
    ELSE NoParse

SQL_INJECTION_PATTERNS ==
    <<"union\\s+select", "or\\s+1\\s*=\\s*1", "'\\s*or\\s*'", "--\\s*$",
      ";.*drop\\s+table", "exec\\s*\\(", "insert\\s+into",
      "select.*from.*where">>
XSS_PATTERNS ==
    <<"<script", "javascript:", "onerror\\s*=", "onload\\s*=", "<iframe",
      "alert\\s*\\(">>
PATH_TRAVERSAL_PATTERNS ==
    <<"\\.\\./", "\\.\\.\\\\", "/etc/passwd", "/etc/shadow", "c:\\\\windows",
      "\\.\\.%2f">>
SCANNER_USER_AGENTS ==
    <<"nikto", "sqlmap", "nmap", "masscan", "metasploit", "burp", "acunetix",
      "nessus", "openvas">>

\* str.lower of a path or a user agent
LowerField(s) ==
    CASE s = "/item?id='OR'/../etc/passwd" -> "/item?id='or'/../etc/passwd"
      [] s = "/%3Cscript%3E/../<script>" -> "/%3cscript%3e/../<script>"
      [] s = "Mozilla/5.0" -> "mozilla/5.0"
      [] OTHER -> s

\* re.search(pattern, s, re.IGNORECASE) and "scanner in s": the patterns
\* found in a lowered field
Search(pattern, s) ==
    pattern \in
        (CASE s = "/%3cscript%3e/../<script>" -> {"<script", "\\.\\./"}
           [] s = "/item?id='or'/../etc/passwd" ->
                  {"'\\s*or\\s*'", "\\.\\./", "/etc/passwd"}
           [] s = "sqlmap/1.7" -> {"sqlmap"}
           [] OTHER -> {})

\* for pattern in patterns: if found: append; break
RECURSIVE FirstFound(_, _)
FirstFound(patterns, s) ==
    IF patterns = <<>> THEN <<>>
    ELSE IF Search(Head(patterns), s) THEN <<Head(patterns)>>
    ELSE FirstFound(Tail(patterns), s)

Threat(type, severity, location) ==
    [type |-> type, severity |-> severity, location |-> location]
ThreatIf(found, type, severity, location) ==
    IF found # <<>> THEN <<Threat(type, severity, location)>> ELSE <<>>

\* detect_threats (lines 115-189)
DetectThreats(parsed_log) ==
    LET path_lower == LowerField(parsed_log.path)
        agent_lower == LowerField(parsed_log.user_agent)
    IN  ThreatIf(FirstFound(SQL_INJECTION_PATTERNS, path_lower),
                 "SQL_INJECTION", "CRITICAL", "path")
        \o ThreatIf(FirstFound(XSS_PATTERNS, path_lower), "XSS", "HIGH", "path")
        \o ThreatIf(FirstFound(PATH_TRAVERSAL_PATTERNS, path_lower),
                    "PATH_TRAVERSAL", "HIGH", "path")
        \o ThreatIf(FirstFound(SCANNER_USER_AGENTS, agent_lower),
                    "SCANNER_DETECTED", "MEDIUM", "user_agent")
        \o (IF parsed_log.status = 403
            THEN <<Threat("FORBIDDEN_ACCESS", "MEDIUM", "status")>>
            ELSE IF parsed_log.status = 401
            THEN <<Threat("UNAUTHORIZED_ACCESS", "MEDIUM", "status")>>
            ELSE <<>>)

\* severities.get(t["severity"], 0) (line 205)
SeverityRank(severity) ==
    CASE severity = "CRITICAL" -> 4
      [] severity = "HIGH" -> 3
      [] severity = "MEDIUM" -> 2
      [] severity = "LOW" -> 1
      [] OTHER -> 0

\* max(threats, key=...) (line 206): the first of the threats of the
\* highest rank
RECURSIVE MaxThreat(_, _)
MaxThreat(threats, best) ==
    IF threats = <<>> THEN best
    ELSE IF SeverityRank(Head(threats).severity) > SeverityRank(best.severity)
    THEN MaxThreat(Tail(threats), Head(threats))
    ELSE MaxThreat(Tail(threats), best)

\* Mutant: the severity of the first threat of the list
NormalizeLogFirst(parsed_log, threats) ==
    [source |-> "web_server_log",
     severity |-> IF threats = <<>> THEN "INFO" ELSE threats[1].severity,
     source_ip |-> parsed_log.ip,
     path |-> parsed_log.path,
     status |-> parsed_log.status,
     threats |-> [i \in DOMAIN threats |-> threats[i].type],
     threat_details |-> threats]

\* normalize_log (lines 191-227)
NormalizeLog(parsed_log, threats) ==
    [source |-> "web_server_log",
     severity |-> IF threats = <<>> THEN "INFO"
                  ELSE MaxThreat(Tail(threats), Head(threats)).severity,
     source_ip |-> parsed_log.ip,
     path |-> parsed_log.path,
     status |-> parsed_log.status,
     threats |-> [i \in DOMAIN threats |-> threats[i].type],
     threat_details |-> threats]

\* process_log_line (lines 229-246) on the next line of the file, with a
\* callback set: a line that does not parse is passed over
ProcessLogLine ==
    /\ access_log # <<>>
    /\ LET parsed == ParseLine(Head(access_log))
       IN IF parsed = NoParse
          THEN UNCHANGED delivered
          ELSE delivered' = Append(delivered,
                                   NormalizeLog(parsed, DetectThreats(parsed)))
    /\ access_log' = Tail(access_log)
    /\ processed' = Append(processed, Head(access_log))
    /\ UNCHANGED <<threat_input, normalized>>

\* normalize_log called with a list of threats in any order
SampleParsed == ParseLine(Line("common", "/index.html", 200, ""))
ThreatOf(severity) == Threat("ANY", severity, "path")
RECURSIVE ThreatListsUpTo(_)
ThreatListsUpTo(n) ==
    IF n = 0 THEN {<<>>}
    ELSE ThreatListsUpTo(n - 1)
             \cup {Append(l, ThreatOf(s)) :
                       l \in ThreatListsUpTo(n - 1),
                       s \in {"LOW", "MEDIUM", "HIGH", "CRITICAL"}}
ThreatLists == ThreatListsUpTo(MaxThreats)

NormalizeCall ==
    /\ normalized = <<>>
    /\ normalized' = <<NormalizeLog(SampleParsed, threat_input)>>
    /\ UNCHANGED <<access_log, delivered, processed, threat_input>>

RECURSIVE LinesUpTo(_)
LinesUpTo(n) ==
    IF n = 0 THEN {<<>>}
    ELSE LinesUpTo(n - 1)
             \cup {Append(l, x) : l \in LinesUpTo(n - 1), x \in AccessLines}
AccessLogs == LinesUpTo(MaxLines)

ParserIdle ==
    /\ access_log = <<>>
    /\ delivered = <<>>
    /\ processed = <<>>
    /\ threat_input = <<>>
    /\ normalized = <<>>

\* The watched file is empty, or holds a line of free text followed by a
\* request with an injection and a traversal in its path
SampleLog == <<Garbage, Line("common", "/item?id='OR'/../etc/passwd", 200, "")>>
ParserSample ==
    /\ access_log \in {<<>>, SampleLog}
    /\ delivered = <<>>
    /\ processed = <<>>
    /\ threat_input = <<>>
    /\ normalized = <<>>

\* The lines appended to the watched file, or the list normalize_log is
\* called with
ParserInit ==
    /\ \/ access_log \in AccessLogs /\ threat_input = <<>>
       \/ access_log = <<>> /\ threat_input \in ThreatLists
    /\ delivered = <<>>
    /\ processed = <<>>
    /\ normalized = <<>>

IngestIdle == AnalyzerIdle /\ ParserIdle

-----------------------------------------------------------------------------
(***************************************************************************)
(* DashboardState and the dashboard endpoints (api/dashboard.py)           *)
(*                                                                         *)
(* An element of a collection is written as the pair of the update that    *)
(* brought it and its place in that update, so that the elements kept and  *)
(* the elements dropped can be told apart.                                 *)
(***************************************************************************)

MaxUpdates == 2       \* bound: the calls of update that are followed

RAW_FINDINGS_KEPT == 500     \* line 74
STATS_KEPT == 20             \* line 70
max_history == 100           \* line 41

Tactics == {"Credential Access", "Execution", "Discovery", "Exfiltration"}
ThreatIds == {"threat-1", "threat-2"}

\* seq[-n:]
LastOf(seq, n) ==
    IF Len(seq) <= n THEN seq ELSE SubSeq(seq, Len(seq) - n + 1, Len(seq))

\* The dictionary passed to update by its u-th call: nf findings, na
\* correlated attacks, nd decisions
AttackNames == <<"BRUTE_FORCE", "SQL_INJECTION", "PORT_SCAN", "DATA_EXFILTRATION",
                 "PHISHING_ATTEMPT">>
NewResults(u, nf, na, nd) ==
    [raw_findings |-> [i \in 1..nf |-> <<u, i>>],
     correlated_attacks |->
         [i \in 1..na |->
             [attack |-> AttackNames[((i - 1) % Len(AttackNames)) + 1],
              id |-> <<u, i>>]],
     llm_decisions |-> [i \in 1..nd |-> <<u, i>>]]

\* The tactic an attack name is counted under (lines 51-60)
TacticOf(name) ==
    CASE name \in {"BRUTE_FORCE"} -> "Credential Access"
      [] name \in {"SQL_INJECTION"} -> "Execution"
      [] name \in {"PORT_SCAN"} -> "Discovery"
      [] name \in {"DATA_EXFILTRATION"} -> "Exfiltration"
      [] OTHER -> "none"
CountOf(tactic, attacks) ==
    Cardinality({i \in DOMAIN attacks : TacticOf(attacks[i].attack) = tactic})

NoResults ==
    [raw_findings |-> <<>>, correlated_attacks |-> <<>>,
     llm_decisions |-> <<>>, remediated_ids |-> <<>>,
     mitre_tactics |-> [t \in Tactics |-> 0],
     history_stats |-> [times |-> <<>>, threat_counts |-> <<>>,
                        remediation_counts |-> <<>>]]
NoDashboard == [results |-> NoResults, history |-> <<>>]

\* DashboardState.update (lines 43-80) on the state st, the clock reading
\* clock
UpdateState(st, new_results, clock) ==
    LET res == st.results
        raw == res.raw_findings \o new_results.raw_findings
        attacks == res.correlated_attacks \o new_results.correlated_attacks
        series == [times |-> Append(res.history_stats.times, clock),
                  threat_counts |->
                      Append(res.history_stats.threat_counts, Len(attacks)),
                  remediation_counts |->
                      Append(res.history_stats.remediation_counts,
                             Len(res.remediated_ids))]
        grown == Append(st.history, new_results)
    IN [results |->
            [raw_findings |-> IF Len(raw) > RAW_FINDINGS_KEPT
                              THEN LastOf(raw, RAW_FINDINGS_KEPT) ELSE raw,
             correlated_attacks |-> attacks,
             llm_decisions |-> res.llm_decisions \o new_results.llm_decisions,
             remediated_ids |-> res.remediated_ids,
             mitre_tactics |->
                 [t \in Tactics |->
                     res.mitre_tactics[t]
                         + CountOf(t, new_results.correlated_attacks)],
             history_stats |->
                 IF Len(series.times) > STATS_KEPT
                 THEN [times |-> LastOf(series.times, STATS_KEPT),
                       threat_counts |->
                           LastOf(series.threat_counts, STATS_KEPT),
                       remediation_counts |->
                           LastOf(series.remediation_counts, STATS_KEPT)]
                 ELSE series],
        history |-> IF Len(grown) > max_history THEN Tail(grown) ELSE grown]

\* The sizes of the dictionaries the runs pass to update
Shape(nf, na, nd) == [nf |-> nf, na |-> na, nd |-> nd]
Shapes == {Shape(0, 0, 0), Shape(1, 1, 1), Shape(6, 5, 2)}

\* The dashboard after n updates that each brought 5 findings, 5 attacks
\* (one of them counted under no tactic) and one decision, none remediated
AfterUpdates(n) ==
    [results |->
        [raw_findings |->
             LastOf([k \in 1..(5 * n) |-> <<((k - 1) \div 5) + 1, ((k - 1) % 5) + 1>>],
                    RAW_FINDINGS_KEPT),
         correlated_attacks |->
             [k \in 1..(5 * n) |->
                 [attack |-> AttackNames[((k - 1) % 5) + 1],
                  id |-> <<((k - 1) \div 5) + 1, ((k - 1) % 5) + 1>>]],
         llm_decisions |-> [k \in 1..n |-> <<k, 1>>],
         remediated_ids |-> <<>>,
         mitre_tactics |-> [t \in Tactics |-> n],
         history_stats |->
             [times |-> LastOf([k \in 1..n |-> k], STATS_KEPT),
              threat_counts |-> LastOf([k \in 1..n |-> 5 * k], STATS_KEPT),
              remediation_counts |-> LastOf([k \in 1..n |-> 0], STATS_KEPT)]],
     history |-> LastOf([k \in 1..n |-> NewResults(k, 5, 5, 1)], max_history)]

\* state.update(new_results), from _process_all, handle_live_log or
\* POST /dashboard/update-results
Update(shape) ==
    /\ update_no < first_update + MaxUpdates
    /\ LET st == UpdateState([results |-> results, history |-> history],
                             NewResults(update_no + 1, shape.nf, shape.na,
                                        shape.nd),
                             update_no + 1)
       IN /\ results' = st.results
          /\ history' = st.history
    /\ update_no' = update_no + 1
    /\ UNCHANGED <<first_update, summary, upload>>

\* POST /dashboard/remediate (lines 133-142)
Remediate(threat_id) ==
    /\ IF threat_id # "" /\ \A i \in DOMAIN results.remediated_ids :
                               results.remediated_ids[i] # threat_id
       THEN results' = [results EXCEPT
                            !.remediated_ids = Append(@, threat_id)]
       ELSE UNCHANGED results
    /\ UNCHANGED <<history, update_no, first_update, summary, upload>>

\* GET /dashboard/summary (lines 84-123): the counts of the answer
DashboardSummary ==
    /\ summary' =
           <<[total_threats |-> Len(results.correlated_attacks),
              active |-> Len(results.correlated_attacks)
                             - Len(results.remediated_ids),
              remediated |-> Len(results.remediated_ids),
              raw_count |-> Len(results.raw_findings)]>>
    /\ UNCHANGED <<results, history, update_no, first_update, upload>>

\* ---- POST /analyze/upload (api/main.py lines 236-248) ----

\* An uploaded file: its name and its decoded text
File(filename, text) == [filename |-> filename, text |-> text]
Filenames == {"Email_0412.eml", "capture.txt"}
UploadTexts == {"Subject: Urgent password reset", "Nmap scan report for 10.0.0.1",
                "22/tcp open port", "Failed password for root from 10.0.0.5"}
Files == {File(n, t) : n \in Filenames, t \in UploadTexts}

\* str.lower of a file name or a text
LowerText(s) ==
    CASE s = "Email_0412.eml" -> "email_0412.eml"
      [] s = "Subject: Urgent password reset" -> "subject: urgent password reset"
      [] s = "Nmap scan report for 10.0.0.1" -> "nmap scan report for 10.0.0.1"
      [] s = "Failed password for root from 10.0.0.5" ->
             "failed password for root from 10.0.0.5"
      [] OTHER -> s

\* "word in s" for the words analyze_upload looks for
WordsIn(s) ==
    CASE s = "email_0412.eml" -> {"email"}
      [] s = "subject: urgent password reset" -> {"subject:"}
      [] s = "nmap scan report for 10.0.0.1" -> {"nmap"}
      [] s = "22/tcp open port" -> {"port"}
      [] OTHER -> {}

\* The names bound at module level in api/main.py (lines 70-75)
ModuleNames ==
    [log_analyzer |-> "LogAnalysisAgent",
     correlation_agent |-> "CorrelationAgent",
     llm_agent |-> "LLMReasoningAgent",
     email_agent |-> "EmailVerificationAgent",
     ip_agent |-> "IPRangeAnalyzerAgent"]

\* The name analyze_upload looks up for a file (lines 241-246)
UploadAgentName(file) ==
    IF "email" \in WordsIn(LowerText(file.filename))
       \/ "subject:" \in WordsIn(LowerText(file.text))
    THEN "email_agent"
    ELSE IF "nmap" \in WordsIn(LowerText(file.text))
            \/ "port" \in WordsIn(LowerText(file.text))
    THEN "ip_agent"
    ELSE "log_agent"

NoUpload == [file |-> File("", ""), called |-> <<>>, response |-> "none"]

\* analyze_upload: the name is looked up, which raises NameError when the
\* module binds no such name; else the agent's analyze is awaited and
\* _process_all updates the dashboard with what it found and returns
AnalyzeUpload(file, shape) ==
    /\ update_no < first_update + MaxUpdates
    /\ IF UploadAgentName(file) \in DOMAIN ModuleNames
       THEN /\ upload' = [file |-> file,
                          called |-> <<ModuleNames[UploadAgentName(file)]>>,
                          response |-> "results"]
            /\ LET st == UpdateState(
                             [results |-> results, history |-> history],
                             NewResults(update_no + 1, shape.nf, shape.na,
                                        shape.nd),
                             update_no + 1)
               IN /\ results' = st.results
                  /\ history' = st.history
            /\ update_no' = update_no + 1
       ELSE /\ upload' = [file |-> file, called |-> <<>>,
                          response |-> "NameError"]
            /\ UNCHANGED <<results, history, update_no>>
    /\ UNCHANGED <<first_update, summary>>

DashboardIdle ==
    /\ results = NoResults
    /\ history = <<>>
    /\ update_no = 0
    /\ first_update = 0
    /\ summary = <<>>
    /\ upload = NoUpload

\* The dashboard is new, or has taken 19 or 99 updates
PriorUpdates == {0, 19, 99}
DashboardInit ==
    /\ first_update \in PriorUpdates
    /\ update_no = first_update
    /\ results = AfterUpdates(first_update).results
    /\ history = AfterUpdates(first_update).history
    /\ summary = <<>>
    /\ upload = NoUpload


-----------------------------------------------------------------------------
(***************************************************************************)
(* POST /ingest/sources/{source_name}/toggle (api/main.py lines 288-377)   *)
(***************************************************************************)

LiveSources == {"windows_events", "web_server_logs", "network_capture"}

NoIngestor == [created |-> FALSE, running |-> FALSE]
NoToggle == [source |-> "none", kind |-> "none"]

\* start() of an ingestor (windows_events_real.py lines 48-57,
\* web_server_logs.py lines 275-293, network_capture.py lines 40-59): when
\* the flag is set it returns; else it sets the flag and starts the threads
Started(ingestor) == [created |-> TRUE, running |-> TRUE]

\* stop() (windows_events_real.py lines 59-66, web_server_logs.py lines
\* 295-298, network_capture.py lines 61-66): the flag is cleared first
Stopped(ingestor) == [ingestor EXCEPT !.running = FALSE]

\* Thread.start() raises in a start() that found the flag clear
StartCanRaise(s) == ~log_ingestors[s].running

\* win32evtlog.CloseEventLog(self.hand) raises in stop() (line 65); the
\* other two stop() end with a print
StopCanRaise(s) == s = "windows_events" /\ log_ingestors[s].created

\* toggle_log_source(s): raises says whether the call of start() or stop()
\* raises, which the handler's except Exception turns into an error answer
\* (lines 373-377)
Toggle(s, raises) ==
    /\ UNCHANGED log_files_exist
    /\ LET new_state == ~log_sources_enabled[s]
       IN IF new_state
          THEN IF s = "web_server_logs" /\ ~log_files_exist
               THEN /\ log_ingestors' = [log_ingestors EXCEPT ![s].created = TRUE]
                    /\ log_sources_enabled' =
                           [log_sources_enabled EXCEPT ![s] = FALSE]
                    /\ toggle_response' = [source |-> s, kind |-> "no_files"]
                    /\ ~raises
               ELSE /\ raises => StartCanRaise(s)
                    /\ log_ingestors' =
                           [log_ingestors EXCEPT ![s] = Started(@)]
                    /\ IF raises
                       THEN /\ UNCHANGED log_sources_enabled
                            /\ toggle_response' = [source |-> s, kind |-> "error"]
                       ELSE /\ log_sources_enabled' =
                                   [log_sources_enabled EXCEPT ![s] = TRUE]
                            /\ toggle_response' = [source |-> s, kind |-> "enabled"]
          ELSE /\ raises => StopCanRaise(s)
               /\ log_ingestors' =
                      [log_ingestors EXCEPT
                           ![s] = IF @.created THEN Stopped(@) ELSE @]
               /\ IF raises
                  THEN /\ UNCHANGED log_sources_enabled
                       /\ toggle_response' = [source |-> s, kind |-> "error"]
                  ELSE /\ log_sources_enabled' =
                              [log_sources_enabled EXCEPT ![s] = FALSE]
                       /\ toggle_response' = [source |-> s, kind |-> "disabled"]

\* An access log appears at, or goes from, the paths the handler looks at
LogFilesChange ==
    /\ log_files_exist' = ~log_files_exist
    /\ UNCHANGED <<log_sources_enabled, log_ingestors, toggle_response>>

ToggleIdle ==
    /\ log_sources_enabled = [s \in LiveSources |-> FALSE]
    /\ log_ingestors = [s \in LiveSources |-> NoIngestor]
    /\ toggle_response = NoToggle
    /\ log_files_exist = FALSE

ToggleInit ==
    /\ log_sources_enabled = [s \in LiveSources |-> FALSE]
    /\ log_ingestors = [s \in LiveSources |-> NoIngestor]
    /\ toggle_response = NoToggle
    /\ log_files_exist \in BOOLEAN

ApiIdle == DashboardIdle /\ ToggleIdle

-----------------------------------------------------------------------------
\* The packets, keys and clock steps the runs draw from
SrcIp == "10.0.0.5"
DstIp == "10.0.0.1"
Pair == <<SrcIp, DstIp>>
Packet(layer, dport, flags) ==
    [layer |-> layer, src |-> SrcIp, dst |-> DstIp, dport |-> dport,
     flags |-> flags]
Icmp == Packet("ICMP", 0, 0)     \* an echo request: no port, no flags
NonIp == Packet("NONIP", 0, 0)   \* an ARP frame: no IP layer

\* The ports recorded for the pair
Recorded == IF Pair \in DOMAIN connections THEN connections[Pair].ports ELSE {}

\* A scanner sweeps the ports upwards: a packet goes to a port already
\* recorded for the pair or to the lowest port not yet recorded
SweepPorts ==
    Recorded \cup {q \in Ports : q \notin Recorded
                                /\ \A r \in Ports \ Recorded : q <= r}

Counted == IF Pair \in DOMAIN connections THEN connections[Pair].count ELSE 0

\* handle_live_log, the callback main.py installs, catches every exception
\* (main.py lines 99 and 168): it never raises into _report_threat
NoFailure == {}

\* ---- scan runs: a sweep of ACK segments and datagrams, 30 s clock steps ----
ScanPackets ==
    {Packet(layer, dport, ACK) : layer \in {"TCP", "UDP"}, dport \in SweepPorts}
        \cup {Icmp, NonIp}
ScanDeltas == {30}

ScanCapture ==
    \E p \in ScanPackets :
        /\ Counted < MaxCount
        /\ Capture(p, NoFailure)

ScanTick == \E d \in ScanDeltas : Tick(d, ScanMaxTime)

ScanNext ==
    \/ ScanCapture
           /\ UNCHANGED <<threadVars, correlateVars, reasonVars, pipelineVars,
                          loopVars, ingestVars, apiVars>>
    \/ ScanTick
           /\ UNCHANGED <<threadVars, correlateVars, reasonVars, pipelineVars,
                          loopVars, ingestVars, apiVars>>

ScanInit ==
    CaptureIdle /\ CorrelateIdle /\ ReasonIdle /\ PipelineIdle /\ LoopIdle
        /\ IngestIdle /\ ApiIdle
SpecScan == ScanInit /\ [][ScanNext]_vars

\* ---- flood runs: segments to one port, with and without SYN, 5 s steps ----
FloodFlags == {SYN, ACK, SYN + ACK}
FloodPacket(flags) == Packet("TCP", 80, flags)
FloodPackets == {FloodPacket(flags) : flags \in FloodFlags} \cup {Icmp}
FloodDeltas == {5}

FloodCapture ==
    \E p \in FloodPackets :
        /\ Counted < MaxFloodCount
        /\ Capture(p, NoFailure)

FloodTick == \E d \in FloodDeltas : Tick(d, FloodMaxTime)

FloodNext ==
    \/ FloodCapture
           /\ UNCHANGED <<threadVars, correlateVars, reasonVars, pipelineVars,
                          loopVars, ingestVars, apiVars>>
    \/ FloodTick
           /\ UNCHANGED <<threadVars, correlateVars, reasonVars, pipelineVars,
                          loopVars, ingestVars, apiVars>>

FloodInit ==
    CaptureIdle /\ CorrelateIdle /\ ReasonIdle /\ PipelineIdle /\ LoopIdle
        /\ IngestIdle /\ ApiIdle
SpecFlood == FloodInit /\ [][FloodNext]_vars

\* ---- tracker runs: a SYN sweep from one source while another source ----
\* ---- sends SYN segments to one port, 35 s clock steps                ----
MaxSweepCount == 11   \* bound: packets counted for the sweeping pair
MaxOtherCount == 2    \* bound: packets counted for the other pair
TrackerMaxTime == 70  \* the clock stops here (tracker runs)

OtherIp == "192.168.1.10"
OtherPair == <<OtherIp, DstIp>>
OtherKey == <<OtherIp, DstIp, 80>>
OtherSyn ==
    [layer |-> "TCP", src |-> OtherIp, dst |-> DstIp, dport |-> 80,
     flags |-> SYN]
OtherCounted ==
    IF OtherPair \in DOMAIN connections THEN connections[OtherPair].count
    ELSE 0

\* The sweep opens each new port with a SYN and follows up on the ports it
\* has recorded with ACK segments
SweepPackets ==
    {Packet("TCP", q, SYN) : q \in SweepPorts \ Recorded}
        \cup {Packet("TCP", q, ACK) : q \in Recorded}
TrackerDeltas == {35}

SweepCapture ==
    \E p \in SweepPackets \cup {Icmp} :
        /\ Counted < MaxSweepCount
        /\ Capture(p, NoFailure)

OtherCapture ==
    /\ OtherCounted < MaxOtherCount
    /\ Capture(OtherSyn, NoFailure)

TrackerTick == \E d \in TrackerDeltas : Tick(d, TrackerMaxTime)

TrackerNext ==
    \/ SweepCapture
           /\ UNCHANGED <<threadVars, correlateVars, reasonVars, pipelineVars,
                          loopVars, ingestVars, apiVars>>
    \/ OtherCapture
           /\ UNCHANGED <<threadVars, correlateVars, reasonVars, pipelineVars,
                          loopVars, ingestVars, apiVars>>
    \/ TrackerTick
           /\ UNCHANGED <<threadVars, correlateVars, reasonVars, pipelineVars,
                          loopVars, ingestVars, apiVars>>

TrackerInit ==
    CaptureIdle /\ CorrelateIdle /\ ReasonIdle /\ PipelineIdle /\ LoopIdle
        /\ IngestIdle /\ ApiIdle
SpecTracker == TrackerInit /\ [][TrackerNext]_vars

\* ---- runs with a callback that raises: the sweep, 35 s clock steps ----
ReportTypes == {"PORT_SCAN", "SYN_FLOOD"}

FaultyCapture ==
    \E p \in SweepPackets, fails \in SUBSET ReportTypes :
        /\ Counted < MaxSweepCount
        /\ Capture(p, fails)

FaultyTick == \E d \in TrackerDeltas : Tick(d, TrackerMaxTime)

FaultyNext ==
    \/ FaultyCapture
           /\ UNCHANGED <<threadVars, correlateVars, reasonVars, pipelineVars,
                          loopVars, ingestVars, apiVars>>
    \/ FaultyTick
           /\ UNCHANGED <<threadVars, correlateVars, reasonVars, pipelineVars,
                          loopVars, ingestVars, apiVars>>

FaultyInit ==
    CaptureIdle /\ CorrelateIdle /\ ReasonIdle /\ PipelineIdle /\ LoopIdle
        /\ IngestIdle /\ ApiIdle
SpecFaulty == FaultyInit /\ [][FaultyNext]_vars

\* ---- start and stop calls, with packets arriving at the capture threads ----
LifecyclePackets == {Packet("TCP", 80, SYN), Packet("UDP", 53, 0)}
Threads == 1..MaxThreads

otherThanCapture == <<correlateVars, reasonVars, pipelineVars, loopVars, ingestVars, apiVars>>

CaptureThreadStep ==
    \E t \in Threads :
        \/ \E p \in LifecyclePackets : Counted < MaxSeen /\ PacketIn(t, p)
        \/ PacketOut(t)

LifecycleNext ==
    \/ Start /\ UNCHANGED otherThanCapture
    \/ Stop /\ UNCHANGED otherThanCapture
    \/ JoinReturns /\ UNCHANGED otherThanCapture
    \/ JoinTimesOut /\ UNCHANGED otherThanCapture
    \/ CaptureThreadStep /\ UNCHANGED otherThanCapture

LifecycleRunInit ==
    CaptureIdle /\ CorrelateIdle /\ ReasonIdle /\ PipelineIdle /\ LoopIdle
        /\ IngestIdle /\ ApiIdle
SpecLifecycle == LifecycleRunInit /\ [][LifecycleNext]_vars

\* ---- correlate on every list of findings ----
CorrelateRunInit ==
    CaptureIdle /\ CorrelateInit /\ ReasonIdle /\ PipelineIdle /\ LoopIdle
        /\ IngestIdle /\ ApiIdle
SpecCorrelate == CorrelateRunInit /\ [][CorrelateNext]_vars

\* ---- repeated calls of correlate on one instance ----
RecallNext ==
    Recall /\ UNCHANGED <<captureVars, reasonVars, pipelineVars, loopVars, ingestVars, apiVars>>
RecallInit ==
    CaptureIdle /\ CorrelateIdle /\ ReasonIdle /\ PipelineIdle /\ LoopIdle
        /\ IngestIdle /\ ApiIdle
SpecRecall == RecallInit /\ [][RecallNext]_vars

\* ---- reason on every list of events, with every answer of the oracle ----
ReasonRunInit == CaptureIdle /\ ReasonInit /\ PipelineIdle /\ LoopIdle
        /\ IngestIdle /\ ApiIdle
SpecReason == ReasonRunInit /\ [][ReasonNext]_vars

\* ---- producer threads and a request against the main loop ----
LoopRunInit ==
    CaptureIdle /\ CorrelateIdle /\ LoopReasonInit /\ PipelineIdle /\ LoopInit
        /\ IngestIdle /\ ApiIdle
SpecLoop == LoopRunInit /\ [][LoopNext]_vars

\* ---- producer threads broadcasting to two dashboard clients ----
BroadcastRunInit ==
    CaptureIdle /\ CorrelateIdle /\ LoopReasonInit /\ PipelineIdle
        /\ LoopConnected
        /\ IngestIdle /\ ApiIdle
SpecBroadcast == BroadcastRunInit /\ [][BroadcastNext]_vars

\* ---- the same, with dashboards that disconnect ----
SpecDelivery == BroadcastRunInit /\ [][DeliveryNext]_vars

\* ---- analyze on every text, process_log_line on every file ----
otherThanIngest ==
    <<captureVars, correlateVars, reasonVars, pipelineVars, loopVars, apiVars>>
IngestNext ==
    \/ AnalyzeCall /\ UNCHANGED <<otherThanIngest, parserVars>>
    \/ ProcessLogLine /\ UNCHANGED <<otherThanIngest, analyzerVars>>
IngestInit ==
    \/ AnalyzerInit /\ ParserSample
    \/ AnalyzerIdle /\ ParserInit /\ threat_input = <<>>
IngestRunInit ==
    CaptureIdle /\ CorrelateIdle /\ ReasonIdle /\ PipelineIdle /\ LoopIdle
        /\ IngestInit /\ ApiIdle
SpecIngest == IngestRunInit /\ [][IngestNext]_vars

\* ---- process_log_line on every file, normalize_log on every list ----
NormalizeNext ==
    \/ ProcessLogLine /\ UNCHANGED <<otherThanIngest, analyzerVars>>
    \/ NormalizeCall /\ UNCHANGED <<otherThanIngest, analyzerVars>>
NormalizeRunInit ==
    CaptureIdle /\ CorrelateIdle /\ ReasonIdle /\ PipelineIdle /\ LoopIdle
        /\ AnalyzerIdle /\ ParserInit /\ ApiIdle
SpecNormalize == NormalizeRunInit /\ [][NormalizeNext]_vars

\* ---- one submission through the pipeline, live or by request ----
PipelineRunInit == CaptureIdle /\ PipelineInit /\ LoopIdle
        /\ IngestIdle /\ ApiIdle
SpecPipeline == PipelineRunInit /\ [][PipelineNext]_vars

\* ---- submissions of several findings through every entry point ----
SpecEntry == PipelineRunInit /\ [][EntryNext]_vars

\* ---- the dashboard under updates, uploads, remediations and summaries ----
otherThanApi ==
    <<captureVars, correlateVars, reasonVars, pipelineVars, loopVars,
      ingestVars>>
DashboardNext ==
    \/ (\E shape \in Shapes : Update(shape))
           /\ UNCHANGED <<otherThanApi, toggleVars>>
    \/ (\E file \in Files, shape \in Shapes : AnalyzeUpload(file, shape))
           /\ UNCHANGED <<otherThanApi, toggleVars>>
    \/ (\E threat_id \in ThreatIds \cup {""} : Remediate(threat_id))
           /\ UNCHANGED <<otherThanApi, toggleVars>>
    \/ DashboardSummary /\ UNCHANGED <<otherThanApi, toggleVars>>
DashboardRunInit ==
    CaptureIdle /\ CorrelateIdle /\ ReasonIdle /\ PipelineIdle /\ LoopIdle
        /\ IngestIdle /\ DashboardInit /\ ToggleIdle
SpecDashboard == DashboardRunInit /\ [][DashboardNext]_vars

\* ---- toggles of the three live sources, with and without a raise ----
ToggleNext ==
    \/ (\E s \in LiveSources, raises \in BOOLEAN : Toggle(s, raises))
           /\ UNCHANGED <<otherThanApi, dashVars>>
    \/ LogFilesChange /\ UNCHANGED <<otherThanApi, dashVars>>
ToggleRunInit ==
    CaptureIdle /\ CorrelateIdle /\ ReasonIdle /\ PipelineIdle /\ LoopIdle
        /\ IngestIdle /\ DashboardIdle /\ ToggleInit
SpecToggle == ToggleRunInit /\ [][ToggleNext]_vars



-----------------------------------------------------------------------------
(***************************************************************************)
(* NetworkCapture: the claims                                              *)
(***************************************************************************)

SynKey == <<SrcIp, DstIp, FloodPacket(SYN).dport>>
SynTracked == SynKey \in DOMAIN syn_packets
SynCount == IF SynTracked THEN syn_packets[SynKey].count ELSE 0

\* A step that processed a packet (the clock stands still while it runs)
PacketStep == now' = now

\* C1: Port-scan threshold.  A TCP packet reports a PORT_SCAN exactly when it
\* brings the pair's set of distinct ports (recorded since the entry was
\* created or last reset) to 10: with fewer than 10 recorded after the packet
\* there is no report; the report is single, HIGH, counts 10 ports and leaves
\* the set empty, so that 10 further distinct ports are needed for the next
\* one; packets of other layers report nothing.
C1_PortScanThreshold ==
    [][PacketStep =>
        LET pre   == Cardinality(Recorded)
            post  == Cardinality(Recorded')
            scans == {i \in DOMAIN reported' : reported'[i].type = "PORT_SCAN"}
        IN IF step'.layer = "TCP"
           THEN /\ Cardinality(scans) <= 1
                /\ scans = {} => /\ post < 10
                                 /\ Recorded \subseteq Recorded'
                                 /\ post <= pre + 1
                /\ \A i \in scans :
                      /\ reported'[i].severity = "HIGH"
                      /\ reported'[i].n >= 10
                      /\ reported'[i].n \in {pre, pre + 1}
                      /\ pre < 10 => reported'[i].n = 10
                      /\ Recorded' = {}
           ELSE scans = {}
    ]_vars

\* C1 witness: a second report for the pair, made by the 20th packet, ten
\* distinct ports after the first one, all inside one 60 s window
C1_Witness ==
    /\ Len(reported) = 1
    /\ reported[1].type = "PORT_SCAN"
    /\ reported[1].n = 10
    /\ Counted = 20
    /\ now <= 60

\* C2: Flood threshold.  Every SYN-flagged TCP packet adds one to its
\* triple's counter; while the counter stays below 50 nothing is reported;
\* the packet that makes it 50 reports exactly one CRITICAL SYN_FLOOD of 50
\* packets and leaves the counter at 0; packets without SYN neither count
\* nor report.
C2_FloodThreshold ==
    [][PacketStep =>
        LET floods  == {i \in DOMAIN reported' : reported'[i].type = "SYN_FLOOD"}
            synStep == step'.layer = "TCP" /\ step'.flags \in {2, 18}
        IN /\ Cardinality(floods) <= 1
           /\ \A k \in DOMAIN syn_packets' : syn_packets'[k].count < 50
           /\ \A i \in floods : /\ reported'[i].severity = "CRITICAL"
                                /\ reported'[i].n = 50
           /\ IF synStep
              THEN /\ SynTracked'
                   /\ IF SynCount = 49
                      THEN floods # {} /\ SynCount' = 0
                      ELSE floods = {} /\ SynCount' = SynCount + 1
              ELSE /\ floods = {}
                   /\ SynTracked' => SynTracked /\ SynCount' = SynCount
    ]_vars

\* C2 witness: the 50th SYN has just been reported and the counter is back at 0
C2_Witness ==
    /\ Len(reported) = 1
    /\ reported[1].type = "SYN_FLOOD"
    /\ reported[1].n = 50
    /\ SynTracked /\ SynCount = 0
    /\ Counted = 50

\* C3: Window expiry.  A packet for a key whose entry has had no observation
\* for more than its window (60 s for the pair, 10 s for the SYN triple) is
\* counted in a fresh entry: the pair's count is 1 and its port set holds
\* only the new port; the triple's SYN count is 1.
C3_FreshAfterExpiry ==
    [][PacketStep =>
        /\ ( /\ step'.layer \in {"TCP", "UDP"}
             /\ Pair \in DOMAIN connections
             /\ now - connections[Pair].last_seen > 60 )
              => /\ Counted' = 1
                 /\ Cardinality(Recorded') = 1
        /\ ( /\ step'.layer = "TCP" /\ step'.flags \in {2, 18}
             /\ SynTracked
             /\ now - syn_packets[SynKey].last_seen > 10 )
              => SynCount' = 1
    ]_vars

\* C4: Alerts are window-bounded.  The SYN observations counted in a
\* SYN_FLOOD report all fall within the 10 s before it, and the ports counted
\* in a PORT_SCAN report (each observed once: the entry's packet count equals
\* the ports reported) within the 60 s before it.
C4_AlertsWindowBounded ==
    \A i \in DOMAIN reported :
        /\ reported[i].type = "SYN_FLOOD" => alert_span[i] <= 10
        /\ (reported[i].type = "PORT_SCAN" /\ Counted = reported[i].n)
              => alert_span[i] <= 60

-----------------------------------------------------------------------------
(***************************************************************************)
(* CorrelationAgent.correlate: the claims                                  *)
(***************************************************************************)

Returned == cpc = "returned"

\* The identities of the groups: the known source addresses of the input
GroupIds ==
    {findings[i].source_ip : i \in {j \in DOMAIN findings :
                                    findings[j].source_ip \notin {"Unknown", ""}}}

TypesOf(ip) ==
    {findings[i].threat_type : i \in {j \in DOMAIN findings :
                                      findings[j].source_ip = ip}}
AgentsOf(ip) ==
    {findings[i].agent_name : i \in {j \in DOMAIN findings :
                                     findings[j].source_ip = ip}}

\* The events correlate returned for one source
EventsOf(ip) ==
    LET from(e) == e.source = ip
    IN SelectSeq(correlated, from)

MultiVector(ip) ==
    {"EmailVerificationAgent", "LogAnalysisAgent"} \subseteq AgentsOf(ip)
ScanToExploit(ip) ==
    {"IPRangeAnalyzerAgent", "LogAnalysisAgent"} \subseteq AgentsOf(ip)
BruteToInjection(ip) ==
    /\ "BRUTE_FORCE" \in TypesOf(ip)
    /\ TypesOf(ip) \cap {"SQL_INJECTION", "XSS_ATTACK"} # {}
ReconToExploit(ip) ==
    /\ "NETWORK_RECON" \in TypesOf(ip)
    /\ TypesOf(ip) \cap {"BRUTE_FORCE", "SQL_INJECTION"} # {}

OneEvent(ip, attack, severity) ==
    /\ Len(EventsOf(ip)) = 1
    /\ EventsOf(ip)[1].attack = attack
    /\ EventsOf(ip)[1].severity = severity

\* C5: Correlation priority.  A group in which a campaign rule matches gets
\* exactly one event, that of the first matching rule in the order
\* multi-vector, scan-to-exploit, brute-force-to-injection, always CRITICAL;
\* in particular log-origin findings with BRUTE_FORCE and SQL_INJECTION, with
\* or without NETWORK_RECON, give one ADVANCED_PERSISTENT_THREAT and no
\* pass-through event.
C5_CorrelationPriority ==
    Returned =>
        \A ip \in GroupIds :
            /\ MultiVector(ip) => OneEvent(ip, "MULTI_VECTOR_CAMPAIGN", "CRITICAL")
            /\ (~MultiVector(ip) /\ ScanToExploit(ip))
                  => OneEvent(ip, "TARGETED_EXPLOITATION", "CRITICAL")
            /\ (~MultiVector(ip) /\ ~ScanToExploit(ip) /\ BruteToInjection(ip))
                  => OneEvent(ip, "ADVANCED_PERSISTENT_THREAT", "CRITICAL")
            /\ ( /\ AgentsOf(ip) = {"LogAnalysisAgent"}
                 /\ {"BRUTE_FORCE", "SQL_INJECTION"} \subseteq TypesOf(ip) )
                  => OneEvent(ip, "ADVANCED_PERSISTENT_THREAT", "CRITICAL")

\* C5 witness: log findings BRUTE_FORCE, SQL_INJECTION and NETWORK_RECON of
\* one address have come out as the single ADVANCED_PERSISTENT_THREAT event
C5_Witness ==
    /\ Returned
    /\ \E ip \in GroupIds :
          /\ AgentsOf(ip) = {"LogAnalysisAgent"}
          /\ TypesOf(ip) = {"BRUTE_FORCE", "SQL_INJECTION", "NETWORK_RECON"}
          /\ OneEvent(ip, "ADVANCED_PERSISTENT_THREAT", "CRITICAL")
          /\ Len(correlated) = 1

\* C6: Recon-to-exploit rule.  A group in which no higher-priority rule
\* matches and NETWORK_RECON co-occurs with BRUTE_FORCE or SQL_INJECTION gets
\* exactly one event, TARGETED_ATTACK_CAMPAIGN / HIGH.
C6_ReconToExploit ==
    Returned =>
        \A ip \in GroupIds :
            ( /\ ~MultiVector(ip) /\ ~ScanToExploit(ip) /\ ~BruteToInjection(ip)
              /\ ReconToExploit(ip) )
               => OneEvent(ip, "TARGETED_ATTACK_CAMPAIGN", "HIGH")

CampaignTags ==
    {"MULTI_VECTOR_CAMPAIGN", "TARGETED_EXPLOITATION",
     "ADVANCED_PERSISTENT_THREAT", "TARGETED_ATTACK_CAMPAIGN"}

\* C7: Unknown-identity isolation.  The events with source "Unknown" are, one
\* for one and in order, the findings whose source_ip is "Unknown" or empty,
\* each with the finding's own threat_type and severity; no other event
\* carries such a source and none of them is a campaign.
C7_UnknownIsolation ==
    Returned =>
        LET noId(f) == f.source_ip \in {"Unknown", ""}
            anon == SelectSeq(findings, noId)
            evs  == EventsOf("Unknown")
        IN /\ Len(evs) = Len(anon)
           /\ \A i \in DOMAIN evs :
                 /\ evs[i].attack = anon[i].threat_type
                 /\ evs[i].severity = anon[i].severity
                 /\ evs[i].attack \notin CampaignTags
           /\ \A i \in DOMAIN correlated :
                 correlated[i].source \in GroupIds \cup {"Unknown"}

\* C7 witness: three findings without identity, a brute force and an SQL
\* injection from the logs and a phishing email, which would match two
\* campaign rules, come out as three events
C7_Witness ==
    /\ Returned
    /\ Len(findings) = 3
    /\ \A i \in DOMAIN findings : findings[i].source_ip \in {"Unknown", ""}
    /\ \E i \in DOMAIN findings : findings[i].source_ip = ""
    /\ {findings[i].threat_type : i \in DOMAIN findings}
          = {"BRUTE_FORCE", "SQL_INJECTION", "PHISHING_ATTEMPT"}
    /\ Len(correlated) = 3

-----------------------------------------------------------------------------
(***************************************************************************)
(* Claims about reason and the pipeline around it                          *)
(***************************************************************************)

ItemsOf(value) == value.v.items
Severities == {"CRITICAL", "HIGH", "MEDIUM", "LOW"}

\* reason has returned without an answer of the oracle to use: there is no
\* API key, or the call raised
FallbackReturned ==
    /\ rpc = "returned"
    /\ ~has_api_key \/ response.kind = "raise"

\* The row of the fallback table an attack tag selects
TableRow(attack, d) ==
    /\ attack \in {"ACCOUNT_COMPROMISE", "ADVANCED_PERSISTENT_THREAT"} =>
           /\ d.decision = "IMMEDIATE_LOCKDOWN"
           /\ d.severity = "CRITICAL"
           /\ Len(d.actions) = 3
    /\ attack \in {"DATABASE_ATTACK", "SQL_INJECTION"} =>
           /\ d.decision = "DATABASE_ISOLATION"
           /\ d.severity = "CRITICAL"
           /\ Len(d.actions) = 3
    /\ attack \notin {"ACCOUNT_COMPROMISE", "ADVANCED_PERSISTENT_THREAT",
                      "DATABASE_ATTACK", "SQL_INJECTION"} =>
           /\ d.decision = "PERIMETER_REINFORCEMENT"
           /\ d.severity = "MEDIUM"
           /\ Len(d.actions) = 2
    /\ d.reason # <<>>
    /\ \A i \in DOMAIN d.reason : d.reason[i] # ""

\* C8: without the oracle, reason returns one decision per event, in the
\* order of the events, and the event's attack tag alone selects it:
\* ACCOUNT_COMPROMISE and ADVANCED_PERSISTENT_THREAT give IMMEDIATE_LOCKDOWN,
\* CRITICAL, three actions; DATABASE_ATTACK and SQL_INJECTION give
\* DATABASE_ISOLATION, CRITICAL, three actions; every other tag gives
\* PERIMETER_REINFORCEMENT, MEDIUM, two actions; the reason is never empty,
\* and two events with the same tag get the same decision.
C8_FallbackTable ==
    FallbackReturned =>
        /\ decisions.t = "array"
        /\ Len(ItemsOf(decisions)) = Len(correlated)
        /\ \A i \in DOMAIN correlated :
               /\ ItemsOf(decisions)[i].t = "object"
               /\ TableRow(correlated[i].attack, ItemsOf(decisions)[i].v)
        /\ \A i, j \in DOMAIN correlated :
               correlated[i].attack = correlated[j].attack =>
                   ItemsOf(decisions)[i] = ItemsOf(decisions)[j]

\* The oracle raised on a SQL_INJECTION event followed by a PORT_SCAN event
\* of another severity, and the table answered both
C8_Witness ==
    /\ FallbackReturned
    /\ has_api_key
    /\ Len(correlated) = 2
    /\ correlated[1].attack = "SQL_INJECTION"
    /\ correlated[1].severity = "LOW"
    /\ correlated[2].attack = "PORT_SCAN"
    /\ ItemsOf(decisions)[1].v.decision = "DATABASE_ISOLATION"
    /\ ItemsOf(decisions)[2].v.decision = "PERIMETER_REINFORCEMENT"

\* C9: when the oracle has not answered within the timeout of ten seconds,
\* reason gives up the call and returns the fallback table's decisions for
\* the same events, and the caller hands those to the sink: no submission is
\* left without decisions.
C9_OracleTimeout ==
    /\ ppc # "failed_reason"
    /\ waited > RESULT_TIMEOUT =>
           /\ rpc = "returned"
           /\ decisions = MockReason(correlated)
           /\ ppc = "done" =>
                  sink[Len(sink)].llm_decisions = MockReason(correlated)

\* An item that follows the schema of a decision (the types of the fields
\* are those of the answers drawn: strings and lists of strings)
ValidDecision(item) ==
    /\ item.t = "object"
    /\ {"decision", "severity", "actions", "reason"} \subseteq DOMAIN item.v
    /\ item.v.severity \in Severities

\* C10: whatever the oracle answers, reason returns an array whose every
\* item is an object with a decision, a severity among CRITICAL, HIGH,
\* MEDIUM and LOW, actions and a reason; items that are not are dropped, and
\* an answer that is no array gives the fallback table.
C10_ResponseValidated ==
    rpc = "returned" =>
        /\ decisions.t = "array"
        /\ \A i \in DOMAIN ItemsOf(decisions) :
               ValidDecision(ItemsOf(decisions)[i])

\* The submission has left the handler through its except branch
Failed == ppc \in {"failed_analyze", "failed_reason"}

\* C13: all-or-nothing processing.  A live event that fails or times out in
\* classification or in decision-mapping leaves no trace in log_source_stats
\* and none in the dashboard state; an event with findings that completes has
\* all its effects: it is counted, its threats are counted, and the state holds
\* its findings, correlated events and decisions.
C13_AllOrNothing ==
    path = "live" =>
        /\ Failed => stats = NoStats /\ sink = <<>>
        /\ (ppc = "done" /\ findings # <<>>) =>
               /\ stats = [events |-> 1, threats |-> Len(correlated)]
               /\ sink = <<Results(findings, correlated, decisions, Source)>>

\* C19: empty input.  correlate of no findings returns no events, and reason
\* of no events returns no decisions and never calls the oracle, with an API
\* key or without.
C19_EmptyInput ==
    /\ (cpc = "returned" /\ findings = <<>>) => correlated = <<>>
    /\ (correlated = <<>> /\ rpc \in {"awaiting", "returned"}) =>
           /\ rpc = "returned"
           /\ decisions = Arr(<<>>)
           /\ oracle_calls = 0

\* A request without findings, with an API key, went through correlate and
\* reason
C19_Witness ==
    /\ path = "request"
    /\ has_api_key
    /\ ppc = "done"
    /\ findings = <<>>
    /\ cpc = "returned"
    /\ correlated = <<>>
    /\ rpc = "returned"
    /\ decisions = Arr(<<>>)
    /\ oracle_calls = 0

\* C20: sink delivery count.  A submission processed to completion, live or
\* by request, with findings or without, has made exactly one state.update
\* call, with its findings, correlated events, decisions and source.
C20_SinkDeliveryCount ==
    ppc = "done" =>
        sink = <<Results(findings, correlated, decisions, Source)>>

-----------------------------------------------------------------------------
(***************************************************************************)
(* Further claims about reason and correlate                               *)
(***************************************************************************)

\* The texts that are JSON once a complete markdown fence is taken off
JsonTexts ==
    UNION {{<<Value(b)>>, <<Fence, JsonWord, Value(b), Fence>>,
            <<Fence, Value(b), Fence>>} : b \in Bodies}

\* The oracle's outcome is an error: the call raised, or its text is not JSON
OracleError ==
    \/ response.kind = "raise"
    \/ response.kind = "text" /\ response.text \notin JsonTexts

C16_SeverityCarried ==
    FallbackReturned =>
        \A i \in DOMAIN correlated :
            ItemsOf(decisions)[i].v.severity = correlated[i].severity

\* The findings of one identity, in input order
MembersOf(ip) ==
    LET from(f) == f.source_ip = ip
    IN SelectSeq(findings, from)

NoCampaign(ip) ==
    /\ ~MultiVector(ip)
    /\ ~ScanToExploit(ip)
    /\ ~BruteToInjection(ip)
    /\ ~ReconToExploit(ip)

\* C17: default pass-through.  A known-identity group in which no campaign
\* rule matches gets one event per member finding, duplicates included, with
\* the finding's threat_type as attack, its severity, and the group's identity
\* as source.
C17_DefaultPassThrough ==
    Returned =>
        \A ip \in GroupIds :
            NoCampaign(ip) =>
                /\ Len(EventsOf(ip)) = Len(MembersOf(ip))
                /\ \A k \in DOMAIN MembersOf(ip) :
                       /\ EventsOf(ip)[k].attack = MembersOf(ip)[k].threat_type
                       /\ EventsOf(ip)[k].severity = MembersOf(ip)[k].severity
                       /\ EventsOf(ip)[k].source = ip

\* Three identical brute-force findings from one address came out as three
\* events
C17_Witness ==
    /\ Returned
    /\ Len(findings) = 3
    /\ \A i \in DOMAIN findings : findings[i].source_ip = "10.0.0.5"
    /\ findings[1] = findings[2]
    /\ findings[1].threat_type = "BRUTE_FORCE"
    /\ findings[3].threat_type = "BRUTE_FORCE"
    /\ NoCampaign("10.0.0.5")
    /\ Len(correlated) = 3
    /\ correlated[1].severity = "HIGH"

\* Where the group of an output event was first encountered in the input: a
\* known identity at its first finding, the k-th event without identity at
\* the k-th finding without identity
NoIdentity(f) == f.source_ip \in {"Unknown", ""}
AnonymousUpTo(evs, i) ==
    Cardinality({j \in 1..i : evs[j].source = "Unknown"})
FirstEncounter(i) ==
    IF correlated[i].source = "Unknown"
    THEN CHOOSE n \in DOMAIN findings :
             /\ NoIdentity(findings[n])
             /\ Cardinality({m \in 1..n : NoIdentity(findings[m])})
                    = AnonymousUpTo(correlated, i)
    ELSE CHOOSE n \in DOMAIN findings :
             /\ findings[n].source_ip = correlated[i].source
             /\ \A m \in 1..(n - 1) :
                    findings[m].source_ip # correlated[i].source

\* The known-identity groups among themselves: the events of one group precede
\* those of another exactly when its first finding does
KnownGroupsOrdered ==
    Returned =>
        \A i, j \in DOMAIN correlated :
            (/\ correlated[i].source # "Unknown"
             /\ correlated[j].source # "Unknown"
             /\ correlated[i].source # correlated[j].source) =>
                (i < j <=> FirstEncounter(i) < FirstEncounter(j))

\* C18: output order of correlate.  The events come in the order in which
\* their groups were first encountered in the input, findings without
\* identity interleaved with the others included, and the pass-through
\* events of one group keep the input order of their findings.
C18_OutputOrder ==
    Returned =>
        /\ \A i, j \in DOMAIN correlated :
               i < j => FirstEncounter(i) <= FirstEncounter(j)
        /\ \A ip \in GroupIds :
               Len(EventsOf(ip)) = Len(MembersOf(ip)) =>
                   \A k \in DOMAIN MembersOf(ip) :
                       /\ EventsOf(ip)[k].attack = MembersOf(ip)[k].threat_type
                       /\ EventsOf(ip)[k].agent = MembersOf(ip)[k].agent_name


(***************************************************************************)
(* Producer threads and the main loop: the claims                          *)
(***************************************************************************)

\* The producers whose thread is inside handle_live_log, and the request
\* whose _process_all is suspended at its await of reason
InHandler == {p \in Producers : thread[p].pc # "idle"}
RequestInProgress == IF request = "processing" THEN 1 ELSE 0

\* C11: serialized processing.  At most one event is between its
\* classification and its sink update at any time, over all the producer
\* threads in handle_live_log and the request in _process_all.
C11_SerializedProcessing ==
    Cardinality(InHandler) + RequestInProgress <= 1

\* C12: single-writer tracker.  Over every sequence of start() and stop()
\* calls, at most one capture thread is inside _process_packet, where the
\* tables are written, at any time.
C12_SingleWriter == Cardinality(DOMAIN inside) <= 1

\* The threat_update messages a client has received for the events of one
\* producer, and the dashboard updates made for them
Received(c, p) ==
    SelectSeq(inbox[c], LAMBDA m : m.type = "threat_update" /\ m.ev[1] = p)
UpdatesOf(p) == SelectSeq(updates, LAMBDA ev : ev[1] = p)
InOrder(evs) == \A i, j \in 1..Len(evs) : i < j => evs[i][2] < evs[j][2]
Numbers(msgs) == [i \in 1..Len(msgs) |-> msgs[i].ev]

\* The dashboard updates for the events of one producer are made in the
\* order in which the producer delivered the events
UpdatesInOrder == \A p \in Producers : InOrder(UpdatesOf(p))

\* C14: per-producer ordering.  The dashboard updates for the events of one
\* producer are made in the order the producer delivered the events, and
\* every client receives their threat_update messages in that order, each
\* after the dashboard update for its event.
C14_PerProducerOrdering ==
    \A p \in Producers :
        /\ InOrder(UpdatesOf(p))
        /\ \A c \in ClientSet :
               /\ InOrder(Numbers(Received(c, p)))
               /\ \A i \in 1..Len(Received(c, p)) :
                      \E j \in 1..Len(updates) :
                          updates[j] = Received(c, p)[i].ev

(***************************************************************************)
(* NetworkCapture: the tracker tables under failures, purges and resets    *)
(***************************************************************************)

PairOf(r) == <<r.source_ip, r.target_ip>>
Scans(reps) == {i \in DOMAIN reps : reps[i].type = "PORT_SCAN"}
Floods(reps) == {i \in DOMAIN reps : reps[i].type = "SYN_FLOOD"}

\* C21: a sink failure does not affect the tracker.  Whether or not the
\* callback raised, the pair of a PORT_SCAN report has its port set reset
\* after the packet, and a triple of the pair of a SYN_FLOOD report that
\* holds the reported count has been reset too.
C21_SinkFailureHarmless ==
    /\ \A i \in Scans(reported) :
           PairOf(reported[i]) \in DOMAIN connections
               => connections[PairOf(reported[i])].ports = {}
    /\ \A i \in Floods(reported) :
           \A k \in DOMAIN syn_packets :
               <<k[1], k[2]>> = PairOf(reported[i])
                   => syn_packets[k].count < reported[i].n

\* A step that processed a packet with an IP layer to its end
IpPacketStep == now' = now /\ step'.layer # "NONIP"

ConnChanged ==
    {k \in DOMAIN connections \cap DOMAIN connections' :
        connections'[k] # connections[k]}
SynChanged ==
    {k \in DOMAIN syn_packets \cap DOMAIN syn_packets' :
        syn_packets'[k] # syn_packets[k]}

\* C28: independent purge.  After a packet with an IP layer no pair entry
\* is older than 60 s and no SYN entry older than 10 s; an entry leaves a
\* table only when it was older than its own table's window; the entries
\* that stay are unchanged, but for the one of the packet's own key; and
\* this is so with and without a report.
C28_IndependentPurge ==
    [][IpPacketStep =>
        /\ \A k \in DOMAIN connections' :
               connections'[k].last_seen >= now - 60
        /\ \A k \in DOMAIN syn_packets' :
               syn_packets'[k].last_seen >= now - 10
        /\ \A k \in DOMAIN connections \ DOMAIN connections' :
               connections[k].last_seen < now - 60
        /\ \A k \in DOMAIN syn_packets \ DOMAIN syn_packets' :
               syn_packets[k].last_seen < now - 10
        /\ Cardinality(ConnChanged) <= 1
        /\ Cardinality(SynChanged) <= 1
    ]_vars

\* C28 witness: the packet that reported a PORT_SCAN at 70 s has purged the
\* other source's SYN entry of 35 s and kept its pair entry of 35 s
C28_Witness ==
    /\ now = 70
    /\ Scans(reported) # {}
    /\ OtherPair \in DOMAIN connections
    /\ connections[OtherPair].last_seen = 35
    /\ OtherKey \notin DOMAIN syn_packets

\* C29: port-scan reset is partial.  The packet that reports a PORT_SCAN
\* leaves the pair's entry in the table with an empty port set, with the
\* count and last_seen its tracking gave it; the entries of the other pairs
\* are unchanged, and no SYN counter is lowered.
C29_PartialReset ==
    [][IpPacketStep =>
        \A i \in Scans(reported') :
            LET k == PairOf(reported'[i])
            IN /\ k \in DOMAIN connections'
               /\ connections'[k].ports = {}
               /\ connections'[k].count = ConnEntry(connections, k, now).count + 1
               /\ connections'[k].last_seen = now
               /\ ConnChanged \subseteq {k}
               /\ \A j \in DOMAIN syn_packets \cap DOMAIN syn_packets' :
                      /\ syn_packets'[j].count >= syn_packets[j].count
                      /\ <<j[1], j[2]>> # k => syn_packets'[j] = syn_packets[j]
    ]_vars

\* C29 witness: the tenth port has just been reported, with the other
\* source's pair entry and SYN counter in the tables
C29_Witness ==
    /\ Scans(reported) # {}
    /\ Recorded = {}
    /\ Counted = 10
    /\ OtherPair \in DOMAIN connections
    /\ OtherKey \in DOMAIN syn_packets
    /\ syn_packets[OtherKey].count = 2

\* C30: tracker counters.  Every packet count, SYN count and port-set size
\* is at least 0; a packet count never decreases while its entry stays; a
\* port set shrinks only in the step that reports a PORT_SCAN for its pair,
\* a SYN count falls only in the step that reports a SYN_FLOOD for its
\* pair; and an entry leaves its table only by the expiry purge.
C30_CounterInvariant ==
    [][/\ \A k \in DOMAIN connections' :
              /\ connections'[k].count >= 0
              /\ Cardinality(connections'[k].ports) >= 0
       /\ \A k \in DOMAIN syn_packets' : syn_packets'[k].count >= 0
       /\ \A k \in DOMAIN connections \cap DOMAIN connections' :
              /\ connections'[k].count >= connections[k].count
              /\ Cardinality(connections'[k].ports)
                     < Cardinality(connections[k].ports)
                  => \E i \in Scans(reported') : PairOf(reported'[i]) = k
       /\ \A k \in DOMAIN syn_packets \cap DOMAIN syn_packets' :
              syn_packets'[k].count < syn_packets[k].count
                  => \E i \in Floods(reported') :
                         PairOf(reported'[i]) = <<k[1], k[2]>>
       /\ \A k \in DOMAIN connections \ DOMAIN connections' :
              now' = now /\ connections[k].last_seen < now - 60
       /\ \A k \in DOMAIN syn_packets \ DOMAIN syn_packets' :
              now' = now /\ syn_packets[k].last_seen < now - 10
    ]_vars

\* C30 witness: after the reset of the report the sweep has started again
\* and the pair's count has gone on from 10 to 11
C30_Witness ==
    /\ Counted = 11
    /\ Cardinality(Recorded) = 1
    /\ reported = <<>>
    /\ now = 0

(***************************************************************************)
(* CorrelationAgent.correlate: purity                                      *)
(***************************************************************************)

Entering == DOMAIN inside' \ DOMAIN inside

C22_CooperativeCancellation ==
    [][\A t \in Entering : t = capture_thread /\ (running \/ joining)]_vars

\* ---------------------------------------------------------------------
\* C27  Producer isolation.  When the handling of one producer's event
\* fails (the handler leaves its wait without a result), the handler
\* returns to that producer, and nothing else changes: the other
\* producers' threads, the loop's queue and suspended tasks, the results,
\* the dashboard state and the events still to come are as they were, so
\* every step the other producers and the loop could take they still can.
Failure(p) ==
    /\ thread[p].pc # "idle"
    /\ thread'[p].pc # thread[p].pc
    /\ ~HasResult(thread[p].pc, EventOf(p))

RuleMatches(k, line) ==
    CASE k = 1 -> AuthFailure(line)
      [] k = 2 -> SqlInjection(line)
      [] k = 3 -> Xss(line)
      [] k = 4 -> NetworkRecon(line)
      [] k = 5 -> PathTraversal(line)
      [] k = 6 -> CommandInjection(line)
      [] k = 7 -> DataExfiltration(line)
      [] k = 8 -> ReconTool(line)
      [] k = 9 -> ServiceBruteForce(line)
OneLine(text) == ~Blank(text) /\ \A i \in DOMAIN text : text[i] # NL
FoundTypes(found) == {found[i].threat_type : i \in DOMAIN found}

C23_IndependentRules ==
    (analyzed /\ OneLine(logs)) =>
        LET hits == {k \in 1..9 : RuleMatches(k, logs)}
        IN /\ Len(analysis) = Cardinality(hits)
           /\ \A k \in hits :
                  analysis[Cardinality({j \in hits : j <= k})]
                      = RuleFinding(k, IpSearch(logs))
           /\ (AuthFailure(logs) /\ PathTraversal(logs)) =>
                  {"BRUTE_FORCE", "PATH_TRAVERSAL"} \subseteq FoundTypes(analysis)

\* A line with a failed password for sshd, a traversal sequence and an
\* address: rules 1, 5 and 9 have each appended their finding
C23_Witness ==
    /\ analyzed
    /\ logs = <<"Failed password", "sshd", "[10.0.0.5]", "../">>
    /\ Len(analysis) = 3
    /\ analysis[1].threat_type = "BRUTE_FORCE"
    /\ analysis[2].threat_type = "PATH_TRAVERSAL"
    /\ analysis[3].threat_type = "BRUTE_FORCE"
    /\ analysis[3].description # analysis[1].description
    /\ \A i \in 1..3 : analysis[i].source_ip = "10.0.0.5"

\* ---------------------------------------------------------------------
\* C24  Batch resilience.  The findings of analyze on a text are the
\* findings of each of its lines analysed alone, concatenated in line
\* order, and a blank line alone yields none.  process_log_line on a line
\* that matches neither format does not call the callback; on every line
\* it leaves the later lines of the file as they were, and a line that
\* parses is delivered as it would be alone.
RECURSIVE Concat(_)
Concat(lists) ==
    IF lists = <<>> THEN <<>> ELSE Head(lists) \o Concat(Tail(lists))
EachAlone(text) ==
    LET lines == Split(text) IN [i \in DOMAIN lines |-> Analyze(lines[i])]
Alone(line) ==
    LET parsed == ParseLine(line)
    IN IF parsed = NoParse THEN <<>>
       ELSE <<NormalizeLog(parsed, DetectThreats(parsed))>>

C24_BatchResilience ==
    [][/\ (analyzed' /\ ~analyzed) =>
             /\ analysis' = Concat(EachAlone(logs'))
             /\ \A i \in DOMAIN Split(logs') :
                    Blank(Split(logs')[i]) => EachAlone(logs')[i] = <<>>
       /\ processed' # processed =>
             /\ access_log' = Tail(access_log)
             /\ delivered' = delivered \o Alone(Head(access_log))
             /\ Head(access_log).format = "none" => delivered' = delivered
      ]_vars

\* A text of two lines with a blank line between them has been analysed,
\* and a line that matches no format stood in the file before a request
\* with a traversal, which alone was delivered
C24_Witness ==
    /\ analyzed
    /\ logs = <<"Failed password", NL, " ", NL>>
    /\ analysis = <<RuleFinding(1, "Unknown")>>
    /\ processed = SampleLog
    /\ Len(delivered) = 1
    /\ delivered[1].threats = <<"SQL_INJECTION", "PATH_TRAVERSAL">>

\* ---------------------------------------------------------------------
\* C25  Max-severity aggregation.  The severity normalize_log gives a
\* record is the highest, under LOW < MEDIUM < HIGH < CRITICAL, of the
\* severities of its threats, in whatever order they stand, and is INFO
\* exactly when there is no threat.
IsMaxSeverity(severity, details) ==
    IF details = <<>> THEN severity = "INFO"
    ELSE /\ severity # "INFO"
         /\ \E i \in DOMAIN details : details[i].severity = severity
         /\ \A i \in DOMAIN details :
                SeverityRank(details[i].severity) <= SeverityRank(severity)
Records == [i \in DOMAIN delivered |-> delivered[i]] \o normalized

C25_MaxSeverity ==
    \A i \in DOMAIN Records :
        /\ IsMaxSeverity(Records[i].severity, Records[i].threat_details)
        /\ (\E j \in DOMAIN Records[i].threat_details :
                Records[i].threat_details[j].severity = "CRITICAL")
               => Records[i].severity = "CRITICAL"

\* normalize_log was called with a MEDIUM threat before a CRITICAL one
C25_Witness ==
    /\ threat_input = <<ThreatOf("MEDIUM"), ThreatOf("CRITICAL"), ThreatOf("LOW")>>
    /\ normalized # <<>>
    /\ normalized[1].severity = "CRITICAL"

-----------------------------------------------------------------------------
(***************************************************************************)
(* The dashboard and the API endpoints: the claims                         *)
(***************************************************************************)

\* The largest size the dashboard is said to keep of any collection
DisplayBound == RAW_FINDINGS_KEPT

\* C31 (as stated): every collection the dashboard accumulates stays
\* bounded: at most 500 raw findings, 100 dictionaries of history, 20
\* entries in each series of history_stats, and no more than the largest of
\* these bounds in correlated_attacks and in llm_decisions
C31_BoundedDisplay ==
    /\ Len(results.raw_findings) <= RAW_FINDINGS_KEPT
    /\ Len(history) <= max_history
    /\ Len(results.history_stats.times) <= STATS_KEPT
    /\ Len(results.history_stats.threat_counts) <= STATS_KEPT
    /\ Len(results.history_stats.remediation_counts) <= STATS_KEPT
    /\ Len(results.correlated_attacks) <= DisplayBound
    /\ Len(results.llm_decisions) <= DisplayBound

\* C38 (as stated): the remediated ids are never more than the correlated
\* attacks, and no summary reports a negative active count
C38_NonNegativeActive ==
    /\ Len(results.remediated_ids) <= Len(results.correlated_attacks)
    /\ summary # <<>> => summary[1].active >= 0

\* C39 (as stated): every upload is handed to exactly one classifier, the
\* one its name and text select, and answers with the pipeline's result
C39_UploadRouting ==
    upload.response # "none" =>
        /\ Len(upload.called) = 1
        /\ upload.called[1] =
               (IF "email" \in WordsIn(LowerText(upload.file.filename))
                   \/ "subject:" \in WordsIn(LowerText(upload.file.text))
                THEN "EmailVerificationAgent"
                ELSE IF "nmap" \in WordsIn(LowerText(upload.file.text))
                        \/ "port" \in WordsIn(LowerText(upload.file.text))
                THEN "IPRangeAnalyzerAgent"
                ELSE "LogAnalysisAgent")
        /\ upload.response = "results"

\* C37 (as stated): after every completed toggle, the enabled flag of each
\* source equals the running flag of its ingestor, FALSE when none was
\* created
C37_ToggleConsistency ==
    \A s \in LiveSources :
        log_sources_enabled[s]
            = (log_ingestors[s].created /\ log_ingestors[s].running)

\* C36 (as stated): every record a live source delivers adds one to the
\* events counter of that source, and every delivery that yields correlated
\* events adds their number to its threats counter
C36_LiveSourceStatistics ==
    [][\A p \in Producers :
           /\ thread'[p].n = thread[p].n + 1
                  => source_stats'[p].events = source_stats[p].events + 1
           /\ (thread[p].pc = "analyze" /\ thread'[p].pc = "reason")
                  => source_stats'[p].threats = source_stats[p].threats + 1]_vars

\* The broadcasts that have begun (a connection was sent the message) and
\* have left the loop (no task of theirs is ready or suspended in a send)
Unfinished(m) ==
    \/ \E i \in DOMAIN ready : ready[i].kind = m.type /\ ready[i].ev = m.ev
    \/ \E c \in ClientSet : \E i \in DOMAIN sending[c] :
           sending[c][i].kind = m.type /\ sending[c][i].ev = m.ev
Broadcast ==
    {m \in UNION {{inbox[c][i] : i \in DOMAIN inbox[c]} : c \in ClientSet} :
        ~Unfinished(m)}

\* C35 (as stated): a broadcast sends its message exactly once to every
\* connection that is registered from its start to its end, also when a
\* connection is unregistered while the broadcast is suspended in a send
\* (no connection registers during these runs, so a connection registered
\* now was registered when each broadcast began)
C35_BroadcastDelivery ==
    \A m \in Broadcast :
        \A k \in DOMAIN clients :
            Cardinality({i \in DOMAIN inbox[clients[k]] :
                             inbox[clients[k]][i] = m}) = 1

\* C34 (as stated): after every packet the port set of an entry holds fewer
\* than 10 ports, and every PORT_SCAN report carries ports_scanned = 10 and
\* is caused by a packet to a port new to a set of 9, whatever the mix of
\* TCP segments and UDP datagrams
C34_PortSetBelowThreshold ==
    [][/\ Cardinality(Recorded') < PORT_SCAN_THRESHOLD
       /\ \A i \in DOMAIN reported' :
              reported'[i].type = "PORT_SCAN"
                  => /\ reported'[i].n = PORT_SCAN_THRESHOLD
                     /\ Cardinality(Recorded) = PORT_SCAN_THRESHOLD - 1]_vars

-----------------------------------------------------------------------------
(***************************************************************************)
(* The tracker's reports in handle_live_log: the claims                    *)
(***************************************************************************)

\* The "message" of a report (network_capture.py lines 137 and 156), as the
\* pieces of the f-string
ReportMessage(r) ==
    IF r.type = "PORT_SCAN"
    THEN <<"Port scan detected from ", r.source_ip, " to ", r.target_ip,
           " (N ports)">>
    ELSE <<"SYN flood detected from ", r.source_ip, " to ", r.target_ip,
           ":80 (N packets)">>

\* handle_live_log on a report (main.py lines 112-138): the message is
\* analysed, and what analyze finds is correlated and goes to the sink
SinkEvents(r) ==
    LET found == Analyze(ReportMessage(r))
    IN IF found = <<>> THEN <<>> ELSE Correlate(found)

\* C32 (as stated): every PORT_SCAN or SYN_FLOOD report delivered to
\* handle_live_log gives a correlated event at the sink with the report's
\* attack, severity and source address
C32_TrackerAlertsSurvive ==
    \A i \in DOMAIN reported :
        \E j \in DOMAIN SinkEvents(reported[i]) :
            /\ SinkEvents(reported[i])[j].attack = reported[i].type
            /\ SinkEvents(reported[i])[j].severity = reported[i].severity
            /\ SinkEvents(reported[i])[j].source = reported[i].source_ip

-----------------------------------------------------------------------------
(***************************************************************************)
(* The entry points: the claims                                            *)
(***************************************************************************)

CampaignAttacks == {"MULTI_VECTOR_CAMPAIGN", "TARGETED_EXPLOITATION"}
AgentNames(fs) == {fs[i].agent_name : i \in DOMAIN fs}
NoCampaignIn(evs) == \A i \in DOMAIN evs : evs[i].attack \notin CampaignAttacks

\* C33: single-agent input to correlation.  The findings an entry point
\* passes to correlate all carry one agent_name, and neither what correlate
\* returns nor what reaches the sink holds a MULTI_VECTOR_CAMPAIGN or a
\* TARGETED_EXPLOITATION event.
C33_SingleAgentInput ==
    /\ ppc \notin {"submitted", "classifying"}
           => Cardinality(AgentNames(findings)) <= 1
    /\ NoCampaignIn(correlated)
    /\ \A k \in DOMAIN sink : NoCampaignIn(sink[k].correlated_attacks)

\* A request whose agent returned two findings for one known address went
\* through correlate and reached the sink
C33_Witness ==
    /\ path = "request"
    /\ ppc = "done"
    /\ Len(findings) = 2
    /\ findings[1].source_ip = "10.0.0.5"
    /\ findings[2].source_ip = "10.0.0.5"
    /\ findings[1].agent_name = "EmailVerificationAgent"
    /\ Len(sink) = 1
    /\ sink[1].correlated_attacks = correlated

=============================================================================
